---- MODULE Spec2Model ----
(***************************************************************************)
(* EulerPC predictor-corrector IRC integrator                              *)
(* (src/pysisyphus/irc/EulerPC.py).                                        *)
(*                                                                         *)
(* Coordinates are vectors on a two-dimensional integer lattice (two       *)
(* mass-weighted degrees of freedom).  All gradients that are normalised   *)
(* are axis aligned, so that  x += h * -g/|g|  stays on the lattice.       *)
(* step_length is chosen so that corr_step_length = step_length/(points-1) *)
(* and euler_step_length are whole numbers of lattice units for every      *)
(* refinement level.  Lengths that the code obtains from np.linalg.norm    *)
(* are irrational in general; they are carried as squares and every        *)
(* comparison of the code is made on the squares.                          *)
(***************************************************************************)
EXTENDS Integers, Sequences, FiniteSets, TLC

\* ------------------------------------------------------------------ bounds
\* Number of refinement levels of the corrector, k = 0..NLevels-1
\* (range(15) in the source; the model walks fewer levels).
NLevels == 3
\* Points of level 0, points = BasePoints * 2^k (20 in the source).
BasePoints == 2
\* max_pred_steps of the configuration (default 500).
MaxPredSteps == 3
\* Number of macro-steps the driver loop runs (max_cycles).
MaxCycles == 2

\* ------------------------------------------------------------ vector maths
Abs(x) == IF x < 0 THEN -x ELSE x

Sign(x) == IF x < 0 THEN -1 ELSE IF x > 0 THEN 1 ELSE 0

Zero2 == <<0, 0>>

VAdd(a, b) == <<a[1] + b[1], a[2] + b[2]>>

VSub(a, b) == <<a[1] - b[1], a[2] - b[2]>>

VScale(c, a) == <<c * a[1], c * a[2]>>

VNeg(a) == <<-a[1], -a[2]>>

Dot(a, b) == a[1] * b[1] + a[2] * b[2]

\* Elementwise product, as numpy's  a * b  on two vectors.
VMul(a, b) == <<a[1] * b[1], a[2] * b[2]>>

\* v rotated by 90 degrees.
Perp(a) == <<-a[2], a[1]>>

NormSq(a) == Dot(a, a)

\* np.linalg.norm of an axis-aligned vector (exact on the lattice).
Norm(a) == Abs(a[1]) + Abs(a[2])

\* -g / np.linalg.norm(g) for an axis-aligned, non-zero g.
NegUnit(g) == <<-Sign(g[1]), -Sign(g[2])>>

\* The axis of the sub-step along -g / norm(g): one sub-step along it.
SubStepAxis(g) == <<Abs(Sign(g[1])), Abs(Sign(g[2]))>>

\* H @ v for a 2x2 matrix given as a pair of rows.
MatVec(H, v) == <<Dot(H[1], v), Dot(H[2], v)>>

MatAdd(A, B) == <<VAdd(A[1], B[1]), VAdd(A[2], B[2])>>

ZeroMat == <<Zero2, Zero2>>

DiagMat(a, b) == <<<<a, 0>>, <<0, b>>>>

RECURSIVE Pow2(_)
Pow2(n) == IF n = 0 THEN 1 ELSE 2 * Pow2(n - 1)

RECURSIVE Gcd(_, _)
Gcd(a, b) == IF b = 0 THEN a ELSE Gcd(b, a % b)

Lcm(a, b) == (a \div Gcd(a, b)) * b

Max(a, b) == IF a >= b THEN a ELSE b

\* The last (at most two) entries of a list: the code only ever reads
\* k_coords[-2] and the list's length being below two.
Last2(s) == IF Len(s) <= 2 THEN s ELSE SubSeq(s, Len(s) - 1, Len(s))

\* --------------------------------------------------------- configuration
\* points = 20*(2**k)
Points(k) == BasePoints * Pow2(k)

RECURSIVE HLcm(_)
\* Least common multiple of points-1 over the levels 0..k.
HLcm(k) == IF k = 0 THEN Points(0) - 1 ELSE Lcm(HLcm(k - 1), Points(k) - 1)

RECURSIVE RichDen(_)
\* Product of the Richardson denominators 2^j - 1, j = 1..n.
RichDen(n) == IF n = 0 THEN 1 ELSE (Pow2(n) - 1) * RichDen(n - 1)

\* The configured step_length in lattice units: a multiple of max_pred_steps,
\* of every points-1 and of every Richardson denominator, so that every point
\* the integrator computes lies on the lattice.
step_length == MaxPredSteps * HLcm(NLevels - 1) * RichDen(NLevels - 1)

\* The corrector's tolerance 1e-5 in lattice units.
ErrTol == 12

\* rms_grad_thresh of the configuration, in gradient units.
rms_grad_thresh == 1

\* sqrt(mass) per coordinate (self.m_sqrt), one choice per run.
MSqrtSet == {<<1, 1>>, <<2, 1>>, <<1, 2>>, <<3, 1>>}

\* hessian_recalc of the configuration; 0 stands for None.
HessianRecalcSet == {0, 1, 2}

\* Potential energy surfaces of the calculator: the mass-weighted gradient is
\* axis aligned, a steep slope along the first or a gentle slope along the
\* second coordinate.
PesSet == {"x", "y"}

\* Corrections the Hessian update rule can return; the zero matrix is the
\* rule's fallback under numerical degeneracy.
DHSet == {ZeroMat, DiagMat(2, 2)}

\* Exact mass-weighted Hessians the calculator can return.
ExactHessSet == {DiagMat(0, 0), DiagMat(2, 2)}

\* Shapes of the DWI's interpolated gradient field offered to the corrector.
\* Every shape is laid out in the frame (u, v) of the sample anchored at the
\* start point: u is the descent direction of that sample, v = Perp(u).
\*   uniform   descent along u everywhere
\*   valley    descent towards the line a = par (a minimum on the path)
\*   stair     descent alternating between u and v along the diagonal
\*   bend      descent along u up to a = par, then along v
\*   rot       descent turning by 90 degrees from cell to cell of size par
FieldSet ==
    {[shape |-> "uniform", par |-> 0],
     [shape |-> "valley", par |-> step_length \div 2],
     [shape |-> "stair", par |-> 0],
     [shape |-> "bend", par |-> step_length \div 2],
     [shape |-> "rot", par |-> step_length \div (Points(1) - 1)]}

VARIABLES
    pc,                \* position of the control flow
    m_sqrt,            \* self.m_sqrt
    pes,               \* the surface the calculator evaluates
    hessian_recalc,    \* self.hessian_recalc (0 = None)
    cur_cycle,         \* self.cur_cycle
    converged,         \* self.converged
    error,             \* the exception that ended the run, "none" if none
    geom,              \* the geometry: coordinates and cached calculator results
    n_calc,            \* number of energy/gradient evaluations made so far
    mw_H,              \* self.mw_H
    hu_H_old,          \* first argument of the latest hessian_update_func call
    dwi,               \* self.dwi: the list of samples
    dwi_shared,        \* indices of the samples whose Hessian is the array
                       \* object of self.mw_H itself, not a copy of it
    dwi_field,         \* shape of the field self.dwi interpolates
    irc_mw_coords,     \* self.irc_mw_coords (last two entries)
    irc_mw_gradients,  \* self.irc_mw_gradients (last two entries)
    mw_grad,           \* local mw_grad of step
    energy,            \* local energy of step
    init_mw_coords,    \* local init_mw_coords of step
    euler_step_length, \* local euler_step_length of step
    euler_mw_coords,   \* local euler_mw_coords of step
    euler_mw_grad,     \* local euler_mw_grad of step
    i,                 \* loop index of the predictor loop
    k,                 \* loop index of the corrector's level loop
    cur_coords,        \* local cur_coords of corrector_step
    cur_shared,        \* cur_coords is the array object init_mw_coords itself
    walked,            \* sub-steps of the current march made along each axis:
                       \* the path length the march has walked so far
    k_coords,          \* local k_coords of corrector_step (last two entries)
    richardson,        \* local richardson of corrector_step
    errors,            \* local errors of corrector_step
    corrected,         \* value returned by corrector_step
    events             \* what the current macro-step did so far, in order:
                       \* "calc" an energy/gradient evaluation by the calculator,
                       \* "hessian_update", "exact_hessian", "dwi_update",
                       \* "predictor", "corrector"; a macro-step starts with
                       \* the evaluation of its start point

\* State of merge_mol2 (drivers/merge_mol2.py).
VARIABLES
    mol_pc,            \* position of the control flow in merge_mol2
    del1,              \* argument del1, as the set delete_atoms_bonds_inplace makes of it
    del2,              \* argument del2
    bonds,             \* argument bonds: the flat list id1, id2, id1, id2, ...
    dict1,             \* local dict1: atoms_xyzs and bond of the first file
    dict2,             \* local dict2
    natoms1,           \* local natoms1
    nbonds1,           \* local nbonds1
    nbonds2,           \* local nbonds2
    bond_i,            \* number of passes of the loop over the new bonds made
    merged             \* the returned dictionary

\* State of rotation_matrix_for_vec_align (linalg_affine3.py).
VARIABLES
    rot_pc,            \* "call" before the call, "returned" after it
    vec1,              \* argument vec1
    vec2,              \* argument vec2
    rot_R              \* the returned matrix

\* State of scan and scan_dir (drivers/marcusdim_scan.py).
VARIABLES
    scan_pc,           \* position of the control flow in scan / scan_dir
    scan_args,         \* the arguments: x0, direction, the keyword arguments
                       \* of scan_dir and the property surface behind
                       \* get_property
    scan_frame,        \* locals of scan: direction, ens0, prop0 and the
                       \* results of the two directional scans
    sd,                \* locals of the running scan_dir call
    sd_ret,            \* value returned by the latest scan_dir call
    evals,             \* the calls of get_property so far, in order
    scan_ret           \* value returned by scan

\* State of find_minima (marcus_dim/param.py, drivers/marcusdim_param.py).
VARIABLES
    fm_pc,             \* position of the control flow in find_minima
    fm_module,         \* which of the two definitions is called
    arr,               \* argument arr
    fm_i,              \* loop index of the list comprehension
    inner_mins,        \* the list the comprehension has built so far
    fm_ret             \* the returned list, or the raised exception

\* State of the sign choice of run_param (marcus_dim/run.py).
VARIABLES
    sign_pc,           \* "call" before line 127, "plot" after line 129
    G1,                \* model.G_adiabatic(scan_factors)[0]
    shifted,           \* shifted_scan_energies[:, 0]
    sign               \* local sign

irc_vars == <<pc, m_sqrt, pes, hessian_recalc, cur_cycle, converged, error, geom, n_calc,
          mw_H, hu_H_old, dwi, dwi_shared, dwi_field, irc_mw_coords, irc_mw_gradients,
          mw_grad, energy, init_mw_coords, euler_step_length, euler_mw_coords,
          euler_mw_grad, i, k, cur_coords, cur_shared, walked, k_coords, richardson,
            errors, corrected, events>>

mol_vars == <<mol_pc, del1, del2, bonds, dict1, dict2, natoms1, nbonds1, nbonds2,
              bond_i, merged>>

rot_vars == <<rot_pc, vec1, vec2, rot_R>>

scan_vars == <<scan_pc, scan_args, scan_frame, sd, sd_ret, evals, scan_ret>>

fm_vars == <<fm_pc, fm_module, arr, fm_i, inner_mins, fm_ret>>

sign_vars == <<sign_pc, G1, shifted, sign>>

vars == <<irc_vars, mol_vars, rot_vars, scan_vars, fm_vars, sign_vars>>

config_vars == <<m_sqrt, pes, hessian_recalc>>

pred_vars == <<mw_grad, energy, init_mw_coords, euler_step_length,
               euler_mw_coords, euler_mw_grad, i>>

corr_vars == <<k, cur_coords, cur_shared, walked, k_coords, richardson, errors,
               corrected>>

hist_vars == <<irc_mw_coords, irc_mw_gradients>>

\* ------------------------------------------------- geometry and calculator
MProd == m_sqrt[1] * m_sqrt[2]

\* self.unweight_vec(vec) = self.m_sqrt * vec
unweight_vec(vec) == VMul(m_sqrt, vec)

\* geometry.mass_weigh_hessian: H[i][j] / (m_sqrt[i] * m_sqrt[j])
mass_weigh_hessian(H) ==
    <<<<H[1][1] \div (m_sqrt[1] * m_sqrt[1]), H[1][2] \div (m_sqrt[1] * m_sqrt[2])>>,
      <<H[2][1] \div (m_sqrt[2] * m_sqrt[1]), H[2][2] \div (m_sqrt[2] * m_sqrt[2])>>>>

\* The Cartesian Hessian whose mass-weighted form is H.
unweigh_hessian(H) ==
    <<<<H[1][1] * (m_sqrt[1] * m_sqrt[1]), H[1][2] * (m_sqrt[1] * m_sqrt[2])>>,
      <<H[2][1] * (m_sqrt[2] * m_sqrt[1]), H[2][2] * (m_sqrt[2] * m_sqrt[2])>>>>

\* Assigning self.mw_coords: new coordinates, cached results dropped.
SetCoords(gm, c) == [gm EXCEPT !.coords = c, !.valid = FALSE]

\* Mass-weighted Hessian at the transition state: negative curvature along
\* the direction of descent, positive across.
TsMwHessian == IF pes = "x" THEN DiagMat(-1, 1) ELSE DiagMat(1, -1)

\* The calculator's mass-weighted gradient at coordinates c.
CalcGradient(c) == IF pes = "x" THEN <<-9, 0>> ELSE <<0, -1>>

\* Reading self.mw_gradient / self.energy: the calculator runs once when
\* nothing is cached for the coordinates; its (n+1)-th evaluation returns the
\* gradient of the surface and an energy that identifies the evaluation.
Evaluated(gm, n) ==
    IF gm.valid THEN gm
    ELSE [gm EXCEPT !.valid = TRUE, !.energy = -(n + 1),
                    !.gradient = CalcGradient(gm.coords)]

CalcCount(gm, n) == IF gm.valid THEN n ELSE n + 1

CalcEvents(gm) == IF gm.valid THEN <<>> ELSE <<"calc">>

\* dwi.update(coords, energy, gradient, hessian): append one sample.
DwiUpdate(samples, c, e, g, H) ==
    Append(samples, [coords |-> c, energy |-> e, gradient |-> g, hessian |-> H])

\* A Hessian argument that is self.mw_H itself.
HessianArgNoCopy(idx) == {idx}

\* self.mw_H.copy() as the Hessian argument of dwi.update for the sample stored
\* at index idx: the indices that then hold the array object of self.mw_H.
HessianArg(idx) == {}

\* self.mw_H += dH changes the array in place: every sample that holds the
\* same array object changes with it.
InPlaceAdd(samples, shared, dH) ==
    [n \in 1..Len(samples) |->
        IF n \in shared
        THEN [samples[n] EXCEPT !.hessian = MatAdd(@, dH)]
        ELSE samples[n]]

\* ----------------------------------------------------------- path lengths
\* get_integration_length(cur) = norm((cur - init) / m_sqrt), for cur - init a
\* whole multiple of the step h: the value (MProd * length / h)^2.
IntegrationLengthSq(init, cur, h) ==
    LET d == VSub(cur, init)
        n1 == d[1] \div h
        n2 == d[2] \div h
    IN  (n1 * m_sqrt[2]) * (n1 * m_sqrt[2]) + (n2 * m_sqrt[1]) * (n2 * m_sqrt[1])

\* The outcomes of a comparison of two floating point numbers whose exact
\* values are a and b, holding for a - b of the sign in holds (a set of -1, 0,
\* 1): the rounding of the operands does not change the sign of a difference
\* of a whole fraction of a step, and it decides either way where the exact
\* values are equal.
FloatCompare(a, b, holds) ==
    IF a = b THEN BOOLEAN ELSE {Sign(a - b) \in holds}

\* The outcomes of  cur_length >= self.step_length,  for a length given by
\* S = (MProd*length/h)^2.
ReachedTarget(S, h) ==
    LET g == Gcd(step_length, h)
    IN  FloatCompare(S * (h \div g) * (h \div g),
                     ((step_length \div g) * MProd) * ((step_length \div g) * MProd),
                     {0, 1})

\* The outcomes of  abs(step_length - cur_length) < .5*corr_step_length,  for
\* a length given by S = (MProd*length/h)^2 and h = step_length / (points - 1):
\* the length lies above the target less half a sub-step and below the target
\* plus half a sub-step.
WithinHalfStep(S, points) ==
    LET above == FloatCompare(4 * S, ((2 * points - 3) * MProd) * ((2 * points - 3) * MProd), {1})
        below == FloatCompare(4 * S, ((2 * points - 1) * MProd) * ((2 * points - 1) * MProd), {-1})
    IN  {a /\ b : a \in above, b \in below}

\* np.sqrt(np.mean(v**2)) <= t.  The first conjunct follows from the second
\* and keeps the squares small.
RmsLeq(v, t) ==
    /\ Abs(v[1]) <= 2 * t
    /\ Abs(v[2]) <= 2 * t
    /\ v[1] * v[1] + v[2] * v[2] <= 2 * t * t

\* ---------------------------------------------------------------- the DWI
\* dwi.interpolate(x, gradient=True): the gradient of the interpolated model
\* at x (the interpolated energy is not used by the corrector).  The sample
\* before the last one is the sample anchored at the macro-step's start point.
Interpolate(samples, fld, x) ==
    LET anchor == samples[Len(samples) - 1]
        u == NegUnit(anchor.gradient)
        v == Perp(u)
        p == VSub(x, anchor.coords)
        a == Dot(p, u)
        b == Dot(p, v)
        ca == (a \div Max(1, fld.par)) % 2
        cb == (b \div Max(1, fld.par)) % 2
        dir == CASE fld.shape = "uniform" -> u
                 [] fld.shape = "valley" -> IF a < fld.par THEN u ELSE VNeg(u)
                 [] fld.shape = "stair" -> IF a <= b THEN u ELSE v
                 [] fld.shape = "bend" -> IF a < fld.par THEN u ELSE v
                 [] fld.shape = "rot" ->
                        IF ca = 0 /\ cb = 0 THEN u
                        ELSE IF ca = 1 /\ cb = 0 THEN v
                        ELSE IF ca = 1 /\ cb = 1 THEN VNeg(u)
                        ELSE VNeg(v)
    IN  VNeg(dir)

\* -------------------------------------------------------------- predictor
\* A conversion factor without the lower bound 2.
ConvFactNoFloor(g) == Norm(unweight_vec(g)) \div Norm(g)

\* conv_fact = max(2, norm(unweight_vec(mw_grad)) / norm(mw_grad))
ConvFact(g) == Max(2, Norm(unweight_vec(g)) \div Norm(g))

\* euler_step_length = self.step_length / (self.max_pred_steps / conv_fact)
EulerStepLength(g) == (step_length * ConvFact(g)) \div MaxPredSteps

\* A recalculation scheduled one cycle early.
IsRecalcEarly(cycle) == hessian_recalc # 0 /\ (cycle + 1) % hessian_recalc = 0

\* self.hessian_recalc and (self.cur_cycle % self.hessian_recalc == 0)
IsRecalc(cycle) == hessian_recalc # 0 /\ cycle % hessian_recalc = 0

\* A Taylor expansion that leaves out the Hessian term.
taylor_gradient_first_order(g0, H, step) == g0

\* taylor_gradient(step) = mw_grad + self.mw_H @ step
taylor_gradient(g0, H, step) == VAdd(g0, MatVec(H, step))

\* An end-point hand-over that leaves the geometry where it was.
EndpointGeometryStale(gm, c) == gm

\* self.mw_coords = euler_mw_coords  before the end-point evaluation.
EndpointGeometry(gm, c) == SetCoords(gm, c)

\* A step that does not hand the end point to the DWI.
EndpointDwiUpdateSkipped(samples, gm, H) == samples

\* self.dwi.update(self.mw_coords.copy(), energy, mw_grad, self.mw_H.copy())
\* after the end-point evaluation.
EndpointDwiUpdate(samples, gm, H) ==
    DwiUpdate(samples, gm.coords, gm.energy, gm.gradient, H)

\* A convergence test without the factor 5.
RmsGradConvergedNoFactor(v) == RmsLeq(v, rms_grad_thresh)

\* rms(v) <= 5 * self.rms_grad_thresh
RmsGradConverged(v) == RmsLeq(v, 5 * rms_grad_thresh)

\* -------------------------------------------------------------- corrector
\* corr_step_length = step_length / (points - 1)
CorrStepLength(kk) == step_length \div (Points(kk) - 1)

\* A level loop that gives up one level early.
LevelsLeftShort(kk) == kk < NLevels - 1

\* A level that marches on the array init_mw_coords itself.
LevelStartSharedNoCopy == TRUE

\* cur_coords = init_mw_coords.copy(): whether the array the march changes in
\* place is the array init_mw_coords itself.
LevelStartShared == FALSE

\* for k in range(15): true while a level is left to integrate.
LevelsLeft(kk) == kk < NLevels

\* richardson = dict()
EmptyTable == [p \in {} |-> Zero2]

\* An extrapolation with the weights 4**j of an even error expansion.
ExtrapolateSquared(j, a, b) ==
    <<(Pow2(2 * j) * a[1] - b[1]) \div (Pow2(2 * j) - 1),
      (Pow2(2 * j) * a[2] - b[2]) \div (Pow2(2 * j) - 1)>>

\* ((2**j) * a - b) / (2**j - 1)
Extrapolate(j, a, b) ==
    <<(Pow2(j) * a[1] - b[1]) \div (Pow2(j) - 1),
      (Pow2(j) * a[2] - b[2]) \div (Pow2(j) - 1)>>

RECURSIVE RichEntry(_, _, _)
\* richardson[(kk, j)] as the loop  for j in range(1, k+1)  computes it from
\* the table tab that holds rows 0..kk-1 and the entry (kk, 0).
RichEntry(tab, kk, j) ==
    IF j = 0 THEN tab[<<kk, 0>>]
    ELSE Extrapolate(j, RichEntry(tab, kk, j - 1), tab[<<kk - 1, j - 1>>])

\* The table after row kk has been stored: richardson[(kk, 0)] = c followed by
\* the extrapolation loop.
RichRow(tab, kk, c) ==
    LET t0 == [p \in DOMAIN tab \cup {<<kk, 0>>} |->
                  IF p = <<kk, 0>> THEN c ELSE tab[p]]
    IN  [p \in DOMAIN tab \cup {<<kk, j>> : j \in 0..kk} |->
            IF p[1] = kk THEN RichEntry(t0, kk, p[2]) ELSE tab[p]]

\* A convergence test no error passes.
ErrorConvergedNever(diff) == FALSE

\* A convergence test with the tolerance 1e-4.
ErrorConvergedLoose(diff) == RmsLeq(diff, 10 * ErrTol)

\* error <= 1e-5 for error = sqrt(mean((richardson[(k,k)] - richardson[(k,k-1)])**2))
ErrorConverged(diff) == RmsLeq(diff, ErrTol)

\* A corrector that compares the new point with the last recorded point.
PrevCoordsLast(kc) == kc[Len(kc)]

\* prev_coords = k_coords[-2]
PrevCoords(kc) == kc[Len(kc) - 1]

\* osc_norm <= corr_step_length for osc_norm = norm(cur - prev)
\* (cur - prev is a whole multiple of h: both sides are divided by h).
Oscillates(cur, prev, h) ==
    LET d == VSub(cur, prev)
    IN  NormSq(<<d[1] \div h, d[2] \div h>>) <= 1

\* ======================================================================
\* drivers/merge_mol2.py
\* ======================================================================

\* Largest number of atoms of an input file, largest number of new bonds.
MaxAtoms == 3
MaxNewBonds == 1

\* The dictionary of a parsed mol2 file with n atoms: the atoms carry the ids
\* 1..n in file order, atom_name tells the atoms of the two files apart and
\* stays with the atom whatever its id becomes; the file's own bonds form a
\* chain.
Mol2Dict(file, n) ==
    [atoms_xyzs |-> [p \in 1..n |-> [atom_id |-> p, atom_name |-> <<file, p>>]],
     bond |-> [b \in 1..(n - 1) |->
                  [bond_id |-> b, bond_type |-> 2,
                   origin_atom_id |-> b, target_atom_id |-> b + 1]]]

EmptyDict == [atoms_xyzs |-> <<>>, bond |-> <<>>]

\* The lists of at most n pairs (id1, id2), id1 from S1 and id2 from S2.
RECURSIVE BondLists(_, _, _)
BondLists(S1, S2, n) ==
    IF n = 0 THEN {<<>>}
    ELSE LET prev == BondLists(S1, S2, n - 1)
         IN  prev \cup {s \o <<a, b>> : s \in {q \in prev : Len(q) = 2 * (n - 1)},
                                         a \in S1, b \in S2}

\* The loop over the atoms of delete_atoms_bonds_inplace: the surviving atoms
\* in order, renumbered by the atoms deleted before them and the offset.
RECURSIVE axs_mod(_, _, _, _)
axs_mod(axs, to_del, atoms_del, atom_offset) ==
    IF axs = <<>> THEN <<>>
    ELSE IF Head(axs).atom_id \in to_del
         THEN axs_mod(Tail(axs), to_del, atoms_del + 1, atom_offset)
         ELSE <<[Head(axs) EXCEPT !.atom_id = @ - atoms_del + atom_offset]>>
              \o axs_mod(Tail(axs), to_del, atoms_del, atom_offset)

\* The dictionary atom_map the same loop builds: original id -> new id.
RECURSIVE atom_map(_, _, _, _)
atom_map(axs, to_del, atoms_del, atom_offset) ==
    IF axs = <<>> THEN <<>>
    ELSE IF Head(axs).atom_id \in to_del
         THEN atom_map(Tail(axs), to_del, atoms_del + 1, atom_offset)
         ELSE (Head(axs).atom_id :> (Head(axs).atom_id - atoms_del + atom_offset))
              @@ atom_map(Tail(axs), to_del, atoms_del, atom_offset)

\* The loop over the bonds: a bond with a deleted end is dropped, the others
\* are renumbered and their ends are looked up in atom_map.
RECURSIVE bonds_mod(_, _, _, _, _)
bonds_mod(bs, to_del, amap, bonds_del, bond_offset) ==
    IF bs = <<>> THEN <<>>
    ELSE IF {Head(bs).origin_atom_id, Head(bs).target_atom_id} \cap to_del # {}
         THEN bonds_mod(Tail(bs), to_del, amap, bonds_del + 1, bond_offset)
         ELSE <<[Head(bs) EXCEPT !.bond_id = @ - bonds_del + bond_offset,
                                 !.origin_atom_id = amap[@],
                                 !.target_atom_id = amap[@]]>>
              \o bonds_mod(Tail(bs), to_del, amap, bonds_del, bond_offset)

delete_atoms_bonds_inplace(as_dict, inds, atom_offset, bond_offset) ==
    [atoms_xyzs |-> axs_mod(as_dict.atoms_xyzs, inds, 0, atom_offset),
     bond |-> bonds_mod(as_dict.bond, inds,
                        atom_map(as_dict.atoms_xyzs, inds, 0, atom_offset),
                        0, bond_offset)]

\* The bond one pass of the loop over `bonds` appends; it is pass number
\* idx = i + 1 of the code's 0-based loop.
new_bond(idx) ==
    [bond_id |-> nbonds1 + (nbonds2 + 1),
     bond_type |-> 1,
     origin_atom_id |-> bonds[2 * idx - 1],
     target_atom_id |-> bonds[2 * idx] + natoms1]

nnewbonds == Len(bonds) \div 2

merge_mol2_dicts(as_dict1, as_dict2) ==
    [atoms_xyzs |-> as_dict1.atoms_xyzs \o as_dict2.atoms_xyzs,
     bond |-> as_dict1.bond \o as_dict2.bond]

\* No call of merge_mol2 is under way.
MolIdle ==
    /\ mol_pc = "idle"
    /\ del1 = {}
    /\ del2 = {}
    /\ bonds = <<>>
    /\ dict1 = EmptyDict
    /\ dict2 = EmptyDict
    /\ natoms1 = 0
    /\ nbonds1 = 0
    /\ nbonds2 = 0
    /\ bond_i = 0
    /\ merged = EmptyDict

\* merge_mol2 is called, both files are parsed: the bonds name atoms that are
\* not deleted, and new_coords is None.
MolCalled ==
    /\ mol_pc = "del1"
    /\ \E n1 \in 1..MaxAtoms, n2 \in 1..MaxAtoms :
          /\ dict1 = Mol2Dict(1, n1)
          /\ dict2 = Mol2Dict(2, n2)
          /\ del1 \in SUBSET (1..n1)
          /\ del2 \in SUBSET (1..n2)
          /\ bonds \in BondLists((1..n1) \ del1, (1..n2) \ del2, MaxNewBonds)
    /\ natoms1 = 0
    /\ nbonds1 = 0
    /\ nbonds2 = 0
    /\ bond_i = 0
    /\ merged = EmptyDict

\* Lines 96-99.
MolDelete1 ==
    /\ mol_pc = "del1"
    /\ mol_pc' = "del2"
    /\ dict1' = delete_atoms_bonds_inplace(dict1, del1, 0, 0)
    /\ natoms1' = Len(dict1'.atoms_xyzs)
    /\ nbonds1' = Len(dict1'.bond)
    /\ UNCHANGED <<irc_vars, rot_vars, scan_vars, fm_vars, sign_vars, del1, del2, bonds, dict2, nbonds2, bond_i, merged>>

\* Lines 101-114.
MolDelete2 ==
    /\ mol_pc = "del2"
    /\ mol_pc' = "bonds"
    /\ dict2' = delete_atoms_bonds_inplace(dict2, del2, natoms1, nbonds1)
    /\ nbonds2' = Len(dict2'.bond)
    /\ bond_i' = 0
    /\ UNCHANGED <<irc_vars, rot_vars, scan_vars, fm_vars, sign_vars, del1, del2, bonds, dict1, natoms1, nbonds1, merged>>

\* One pass of the loop of lines 115-128.
MolAddBond ==
    /\ mol_pc = "bonds"
    /\ bond_i < nnewbonds
    /\ bond_i' = bond_i + 1
    /\ nbonds2' = nbonds2 + 1
    /\ dict2' = [dict2 EXCEPT !.bond = Append(@, new_bond(bond_i + 1))]
    /\ UNCHANGED <<irc_vars, rot_vars, scan_vars, fm_vars, sign_vars, mol_pc, del1, del2, bonds, dict1, natoms1,
                   nbonds1, merged>>

\* Lines 130-131.
MolMerge ==
    /\ mol_pc = "bonds"
    /\ bond_i = nnewbonds
    /\ mol_pc' = "merged"
    /\ merged' = merge_mol2_dicts(dict1, dict2)
    /\ UNCHANGED <<irc_vars, rot_vars, scan_vars, fm_vars, sign_vars, del1, del2, bonds, dict1, dict2, natoms1,
                   nbonds1, nbonds2, bond_i>>

\* ======================================================================
\* linalg_affine3.py, rotation_matrix_for_vec_align
\* ======================================================================

\* The argument vectors are the directions below times 1..MaxScale.
MaxScale == 2

\* Denominator of the default thresh = 1e-8.
ThreshDen == 100000000

\* Directions with an integral norm (1 and 3), so that the normalised
\* vectors, the cosine and the returned matrix are exact fractions.
DirSet ==
    {<<1, 0, 0>>, <<-1, 0, 0>>, <<0, 1, 0>>, <<0, -1, 0>>, <<0, 0, 1>>,
     <<0, 0, -1>>, <<1, 2, 2>>, <<-1, -2, -2>>, <<2, 1, 2>>, <<2, -2, 1>>,
     <<-2, 2, -1>>, <<2, 2, -1>>}

VecSet == {<<s * d[1], s * d[2], s * d[3]>> : s \in 1..MaxScale, d \in DirSet}

Dot3(a, b) == a[1] * b[1] + a[2] * b[2] + a[3] * b[3]

\* np.cross
Cross3(a, b) ==
    <<a[2] * b[3] - a[3] * b[2], a[3] * b[1] - a[1] * b[3], a[1] * b[2] - a[2] * b[1]>>

Eye3 == <<<<1, 0, 0>>, <<0, 1, 0>>, <<0, 0, 1>>>>

MatScale3(c, A) == [r \in 1..3 |-> [q \in 1..3 |-> c * A[r][q]]]

MatAdd3(A, B) == [r \in 1..3 |-> [q \in 1..3 |-> A[r][q] + B[r][q]]]

\* A @ B
MatMul3(A, B) ==
    [r \in 1..3 |-> [q \in 1..3 |-> A[r][1] * B[1][q] + A[r][2] * B[2][q] + A[r][3] * B[3][q]]]

\* np.linalg.norm of a vector with an integral norm.
Norm3(v) == CHOOSE n \in 0..Dot3(v, v) : n * n = Dot3(v, v)

\* vec / norm as the fraction num / den in lowest terms.
UnitVec(v) ==
    LET n == Norm3(v)
        g == Gcd(Gcd(Abs(v[1]), Abs(v[2])), Gcd(Abs(v[3]), n))
    IN  [num |-> <<v[1] \div g, v[2] \div g, v[3] \div g>>, den |-> n \div g]

\* The matrix vx of lines 140-147 for the cross product v.
SkewMat(v) == <<<<0, -v[3], v[2]>>, <<v[3], 0, -v[1]>>, <<-v[2], v[1], 0>>>>

\* The returned matrix as the fraction num / den of an integer matrix and a
\* positive integer.  With the unit vectors a/da and b/db the cosine is
\* cn/cd, cn = a.b and cd = da*db, the cross product is (a x b)/cd and quot
\* is cd/(cd + cn), so that
\*   R = I + W/cd + W@W/(cd*(cd + cn)),  W the matrix vx of a x b.
rotation_matrix_for_vec_align(v1, v2) ==
    LET u1 == UnitVec(v1)
        u2 == UnitVec(v2)
        cn == Dot3(u1.num, u2.num)
        cd == u1.den * u2.den
        W  == SkewMat(Cross3(u1.num, u2.num))
    IN  IF Abs(cn - cd) * ThreshDen <= cd
        THEN [num |-> Eye3, den |-> 1]
        ELSE IF Abs(cn + cd) * ThreshDen <= cd
        THEN [num |-> MatScale3(-1, Eye3), den |-> 1]
        ELSE [num |-> MatAdd3(MatScale3(cd * (cd + cn), Eye3),
                              MatAdd3(MatScale3(cd + cn, W), MatMul3(W, W))),
              den |-> cd * (cd + cn)]

\* No call of rotation_matrix_for_vec_align is under way.
RotIdle ==
    /\ rot_pc = "idle"
    /\ vec1 = <<1, 0, 0>>
    /\ vec2 = <<1, 0, 0>>
    /\ rot_R = [num |-> Eye3, den |-> 1]

\* The function is about to be called with two vectors of a norm >= thresh.
RotCalled ==
    /\ rot_pc = "call"
    /\ vec1 \in VecSet
    /\ vec2 \in VecSet
    /\ rot_R = [num |-> Eye3, den |-> 1]

RotCall ==
    /\ rot_pc = "call"
    /\ rot_pc' = "returned"
    /\ rot_R' = rotation_matrix_for_vec_align(vec1, vec2)
    /\ UNCHANGED <<irc_vars, mol_vars, scan_vars, fm_vars, sign_vars, vec1, vec2>>

\* ======================================================================
\* drivers/marcusdim_scan.py
\* ======================================================================

\* Largest max_steps of a call.
MaxSteps == 4

\* The keyword arguments of scan_dir: lengths in one unit, properties in
\* another; each set passes the asserts of lines 18-22.
StepSizeSet == {1, 2}
AddStepsSet == {0, 1, 2}
MinStepsSet == {0, 2, 3}
GradThreshSet == {1}

\* Start geometries (one atom) and directions; the directions have the norms
\* 1, 2 and 3.
X0Set == {<<0, 0, 0>>, <<1, -2, 0>>}
ScanDirSet == {<<1, 0, 0>>, <<0, -2, 0>>, <<1, 2, 2>>}

\* The properties get_property returns when its values are left open.
PropSet == 0..3

\* Property surfaces behind get_properties, as functions of the displacement
\* along the direction; "open" leaves every returned property open.
SurfaceSet == {"linear", "flat", "ramp", "kink"}

\* A vector of fractions with one denominator, in lowest terms.
FracVec(num, den) ==
    LET g == Gcd(Gcd(Abs(num[1]), Abs(num[2])), Gcd(Abs(num[3]), den))
    IN  [num |-> <<num[1] \div g, num[2] \div g, num[3] \div g>>, den |-> den \div g]

\* a + b
FvAdd(a, b) ==
    FracVec(<<a.num[1] * b.den + b.num[1] * a.den,
              a.num[2] * b.den + b.num[2] * a.den,
              a.num[3] * b.den + b.num[3] * a.den>>, a.den * b.den)

\* c * a for an integer c
FvScale(c, a) == FracVec(<<c * a.num[1], c * a.num[2], c * a.num[3]>>, a.den)

\* An integer vector as a vector of fractions.
FvInt(v) == [num |-> v, den |-> 1]

\* math.isclose(dir_norm, 1.0) with the default rel_tol = 1e-09, for an
\* integral norm.
RelTolInv == 1000000000

IsCloseToOne(n) ==
    Abs(n - 1) <= (IF n > 1 THEN n ELSE 1) \div RelTolInv

\* A scan that uses the direction as it is given.
NotRenormalized(direction) == FvInt(direction)

\* Lines 105-108 of scan: the direction the two directional scans use.
Renormalized(direction) ==
    IF ~IsCloseToOne(Norm3(direction)) THEN UnitVec(direction) ELSE FvInt(direction)

\* The displacement of x from x0 along dir, in units of the step size: x is
\* x0 + n * step_size * dir.
StepsAlong(x, x0f, step_size, dir) ==
    CHOOSE n \in (-MaxSteps - 1)..(MaxSteps + 1) :
        x = FvAdd(x0f, FvScale(n * step_size, dir))

\* The property of a surface at the displacement t.
SurfaceProp(surface, t) ==
    CASE surface = "linear" -> 2 * t
      [] surface = "flat" -> 0
      [] surface = "ramp" -> IF t >= 0 THEN 2 * t ELSE 0
      [] surface = "kink" -> IF t <= 0 THEN 0 ELSE IF t = 1 THEN 3 ELSE 2 * t

\* The properties get_property(x) can return.
PropValues(x) ==
    IF scan_args.surface = "open" THEN PropSet
    ELSE {SurfaceProp(scan_args.surface,
                      scan_args.step_size
                      * StepsAlong(x, FvInt(scan_args.x0), scan_args.step_size,
                                   Renormalized(scan_args.direction)))}

\* The record of one call of get_property.
Evaluation(x, prop) == [x |-> x, energies |-> Len(evals) + 1, prop |-> prop]

\* A scan that starts at x0 itself.
first_point_x0(x0f, step) == x0f

\* Line 26: xcur = x0 + step
first_point(x0f, step) == FvAdd(x0f, step)

\* Lines 24-37: the locals of scan_dir before the loop.  None and nan are the
\* empty tuple, a value is a tuple of one element; grad and abs_grad are
\* fractions <<numerator, denominator>>.  detected records the 0-based index
\* of the pass in which line 73 set converged.
ScanDirEnter(x0f, direction) ==
    [direction |-> direction,
     step |-> FvScale(scan_args.step_size, direction),
     stop_in |-> scan_args.add_steps,
     xcur |-> first_point(x0f, FvScale(scan_args.step_size, direction)),
     converged |-> FALSE,
     detected |-> <<>>,
     grad |-> <<>>,
     prop_prev |-> <<>>,
     abs_grad_prev |-> <<>>,
     grad_decreased_already |-> FALSE,
     i |-> 0,
     all_coords |-> <<>>,
     all_energies |-> <<>>,
     all_properties |-> <<>>,
     exit |-> "none"]

NoFrame == ScanDirEnter(FvInt(<<0, 0, 0>>), FvInt(<<1, 0, 0>>))

\* The outcomes of  abs_grad < abs_grad_prev  (line 53) for two non-negative
\* fractions.  Both are the float 0.0 when both are zero (a property equal to
\* the previous one gives the difference 0.0); other equal values are
\* quotients of rounded differences and compare either way.
FracLess(a, b) ==
    IF a[1] = 0 /\ b[1] = 0 THEN {FALSE}
    ELSE FloatCompare(a[1] * b[2], b[1] * a[2], {-1})

\* The outcomes of  np.abs(grad) <= grad_thresh  (line 73); nan compares
\* False.
GradConverged(grad) ==
    IF grad = <<>> THEN {FALSE}
    ELSE FloatCompare(Abs(grad[1]), scan_args.grad_thresh * grad[2], {-1, 0})

\* A convergence flag that is computed anew in every pass.
ConvergedRetested(conv, test) == test

\* Line 73 for an outcome of the comparison: the test is skipped once
\* convergence is indicated.
ConvergedUpdate(conv, test) == conv \/ test

\* One pass of the loop of scan_dir (lines 39-91) for the property prop that
\* get_property returned: the frames the pass can end in, one for each
\* outcome of the comparisons of lines 53 and 73.
ScanDirPass(f, prop) ==
    LET grad == IF f.prop_prev # <<>>
                THEN <<prop - f.prop_prev[1], scan_args.step_size>> ELSE f.grad
        abs_grad == IF f.prop_prev # <<>> THEN <<<<Abs(grad[1]), grad[2]>>>> ELSE <<>>
        has_prev == f.abs_grad_prev # <<>>
        After(grad_decreased, test) ==
            LET gda == IF has_prev THEN f.grad_decreased_already \/ grad_decreased
                       ELSE FALSE
                increase == /\ f.i >= scan_args.min_steps
                            /\ gda
                            /\ has_prev
                            /\ ~grad_decreased
                conv == ConvergedUpdate(f.converged, test)
                stop_in == IF scan_args.add_steps # 0 /\ conv THEN f.stop_in - 1
                           ELSE f.stop_in
                seen == [f EXCEPT !.all_coords = Append(@, f.xcur),
                                  !.all_properties = Append(@, prop),
                                  !.all_energies = Append(@, Len(evals) + 1),
                                  !.grad = grad,
                                  !.grad_decreased_already = gda]
                tested == [seen EXCEPT !.converged = conv,
                                       !.detected = IF ~f.converged /\ conv
                                                    THEN <<Len(f.all_coords)>> ELSE @,
                                       !.stop_in = stop_in]
            IN  IF increase THEN [seen EXCEPT !.exit = "increase"]
                ELSE IF conv /\ scan_args.add_steps = 0
                THEN [tested EXCEPT !.exit = "converged"]
                ELSE IF scan_args.add_steps # 0 /\ stop_in < 0
                THEN [tested EXCEPT !.exit = "additional"]
                ELSE LET updated == [tested EXCEPT
                                        !.xcur = FvAdd(@, f.step),
                                        !.prop_prev = <<prop>>,
                                        !.abs_grad_prev =
                                            IF abs_grad # <<>> THEN abs_grad ELSE @]
                     IN  IF f.i + 1 < scan_args.max_steps
                         THEN [updated EXCEPT !.i = @ + 1]
                         ELSE [updated EXCEPT !.exit = "exhausted"]
    IN  {After(grad_decreased, test) :
            grad_decreased \in (IF has_prev
                                THEN FracLess(abs_grad[1], f.abs_grad_prev[1])
                                ELSE {FALSE}),
            test \in GradConverged(grad)}

\* seq[:n]
Prefix(seq, n) == SubSeq(seq, 1, IF n < Len(seq) THEN n ELSE Len(seq))

\* Lines 93-101: the returned arrays, cut at the last value of i.
ScanDirResult(f) ==
    [factors |-> [n \in 1..f.i |-> n * scan_args.step_size],
     coords |-> Prefix(f.all_coords, f.i),
     energies |-> Prefix(f.all_energies, f.i),
     properties |-> Prefix(f.all_properties, f.i)]

EmptyResult == [factors |-> <<>>, coords |-> <<>>, energies |-> <<>>, properties |-> <<>>]

\* neg[::-1]
Reverse(seq) == [n \in 1..Len(seq) |-> seq[Len(seq) + 1 - n]]

\* -neg_facts
Negated(seq) == [n \in 1..Len(seq) |-> -seq[n]]

\* -1.0 * direction
neg_dir(direction) == FvScale(-1, direction)

\* np.concatenate((neg[::-1], [init], pos))
concat(neg, init, pos) == Reverse(neg) \o <<init>> \o pos

NoScanFrame ==
    [direction |-> FvInt(<<1, 0, 0>>), ens0 |-> 0, prop0 |-> 0, call |-> "none",
     pos |-> EmptyResult, neg |-> EmptyResult]

\* Neither scan nor scan_dir is called.
ScanIdle ==
    /\ scan_pc = "idle"
    /\ scan_args = [x0 |-> <<0, 0, 0>>, direction |-> <<1, 0, 0>>, step_size |-> 1,
                    add_steps |-> 0, max_steps |-> 1, min_steps |-> 0,
                    grad_thresh |-> 1, surface |-> "flat"]
    /\ scan_frame = NoScanFrame
    /\ sd = NoFrame
    /\ sd_ret = EmptyResult
    /\ evals = <<>>
    /\ scan_ret = EmptyResult

\* Either scan_dir is called with a get_property whose values are open (from
\* one start geometry, along a direction of norm 2), or scan is called with
\* the get_properties of a surface.
ScanCalled ==
    /\ scan_args \in [x0 : X0Set, direction : ScanDirSet, step_size : StepSizeSet,
                      add_steps : AddStepsSet, max_steps : 1..MaxSteps,
                      min_steps : MinStepsSet, grad_thresh : GradThreshSet,
                      surface : SurfaceSet \cup {"open"}]
    /\ scan_args.surface = "open" =>
          scan_args.x0 = <<1, -2, 0>> /\ scan_args.direction = <<0, -2, 0>>
    /\ scan_pc = IF scan_args.surface = "open" THEN "scan_dir" ELSE "scan"
    /\ scan_frame = NoScanFrame
    /\ sd = NoFrame
    /\ sd_ret = EmptyResult
    /\ evals = <<>>
    /\ scan_ret = EmptyResult

\* scan_dir(x0, direction, get_property, **kwargs) is entered: lines 18-37.
ScanDirCall ==
    /\ scan_pc = "scan_dir"
    /\ scan_pc' = "loop"
    /\ scan_frame' = [scan_frame EXCEPT !.call = "direct"]
    /\ sd' = ScanDirEnter(FvInt(scan_args.x0), FvInt(scan_args.direction))
    /\ UNCHANGED <<irc_vars, mol_vars, rot_vars, fm_vars, sign_vars, scan_args, sd_ret,
                   evals, scan_ret>>

\* scan, lines 105-121: the direction is renormalised, the initial geometry
\* is evaluated and the scan in the positive direction is entered.
ScanBegin ==
    /\ scan_pc = "scan"
    /\ scan_pc' = "loop"
    /\ \E prop0 \in PropValues(FvInt(scan_args.x0)) :
          /\ evals' = Append(evals, Evaluation(FvInt(scan_args.x0), prop0))
          /\ scan_frame' = [scan_frame EXCEPT
                               !.direction = Renormalized(scan_args.direction),
                               !.ens0 = Len(evals) + 1,
                               !.prop0 = prop0,
                               !.call = "pos"]
    /\ sd' = ScanDirEnter(FvInt(scan_args.x0), Renormalized(scan_args.direction))
    /\ UNCHANGED <<irc_vars, mol_vars, rot_vars, fm_vars, sign_vars, scan_args, sd_ret,
                   scan_ret>>

\* One pass of the loop of scan_dir, the call of get_property included.
ScanDirIter ==
    /\ scan_pc = "loop"
    /\ \E prop \in PropValues(sd.xcur) :
          /\ evals' = Append(evals, Evaluation(sd.xcur, prop))
          /\ sd' \in ScanDirPass(sd, prop)
    /\ scan_pc' = IF sd'.exit # "none" THEN "return" ELSE "loop"
    /\ UNCHANGED <<irc_vars, mol_vars, rot_vars, fm_vars, sign_vars, scan_args,
                   scan_frame, sd_ret, scan_ret>>

\* scan_dir returns (lines 93-101); in scan the caller stores the result and
\* enters the scan in the negative direction (lines 119-128).
ScanDirReturn ==
    /\ scan_pc = "return"
    /\ sd_ret' = ScanDirResult(sd)
    /\ CASE scan_frame.call = "direct" ->
               /\ scan_pc' = "done"
               /\ UNCHANGED <<scan_frame, sd>>
         [] scan_frame.call = "pos" ->
               /\ scan_pc' = "loop"
               /\ scan_frame' = [scan_frame EXCEPT !.pos = sd_ret', !.call = "neg"]
               /\ sd' = ScanDirEnter(FvInt(scan_args.x0), neg_dir(scan_frame.direction))
         [] scan_frame.call = "neg" ->
               /\ scan_pc' = "concat"
               /\ scan_frame' = [scan_frame EXCEPT !.neg = sd_ret']
               /\ UNCHANGED sd
    /\ UNCHANGED <<irc_vars, mol_vars, rot_vars, fm_vars, sign_vars, scan_args, evals,
                   scan_ret>>

\* scan, lines 130-140.
ScanConcat ==
    /\ scan_pc = "concat"
    /\ scan_pc' = "done"
    /\ scan_ret' =
          [factors |-> concat(Negated(scan_frame.neg.factors), 0, scan_frame.pos.factors),
           coords |-> concat(scan_frame.neg.coords, FvInt(scan_args.x0),
                             scan_frame.pos.coords),
           energies |-> concat(scan_frame.neg.energies, scan_frame.ens0,
                               scan_frame.pos.energies),
           properties |-> concat(scan_frame.neg.properties, scan_frame.prop0,
                                 scan_frame.pos.properties)]
    /\ UNCHANGED <<irc_vars, mol_vars, rot_vars, fm_vars, sign_vars, scan_args,
                   scan_frame, sd, sd_ret, evals>>

\* ======================================================================
\* find_minima (marcus_dim/param.py and drivers/marcusdim_param.py)
\* ======================================================================

\* Largest length of the array.
MaxArrLen == 4

ArrValSet == 0..2

\* The 1-d arrays of a length from 3 to n.
RECURSIVE ArraysUpTo(_)
ArraysUpTo(n) ==
    IF n < 3 THEN {}
    ELSE [1..n -> ArrValSet] \cup ArraysUpTo(n - 1)

\* arr[j] for a 0-based index j within the array.
At(a, j) == a[j + 1]

\* first_min of marcus_dim/param.py; the variant of drivers/ has none.
first_min(a) ==
    IF fm_module = "marcus_dim" /\ At(a, 0) < At(a, 1) THEN <<0>> ELSE <<>>

\* last_min of marcus_dim/param.py
last_min(a) ==
    IF fm_module = "marcus_dim" /\ At(a, Len(a) - 1) < At(a, Len(a) - 2)
    THEN <<Len(a) - 1>> ELSE <<>>

\* The condition  arr[i - 1] > arr[i] < arr[i + 1]  at index j: the chained
\* comparison reads arr[i + 1] only when arr[i - 1] > arr[i] holds, and the
\* read raises IndexError for i + 1 = len(arr).
NeedsRight(a, j) == At(a, j - 1) > At(a, j)

RightInRange(a, j) == j + 1 < Len(a)

\* range(1, arr.size)
RangeEnd(a) == Len(a)

NoReturn == [raised |-> FALSE, value |-> <<>>]

\* find_minima is not called.
FmIdle ==
    /\ fm_pc = "idle"
    /\ fm_module = "marcus_dim"
    /\ arr = <<0, 0, 0>>
    /\ fm_i = 0
    /\ inner_mins = <<>>
    /\ fm_ret = NoReturn

\* find_minima(arr) is called with an array that passes the assert.
FmCalled ==
    /\ fm_pc = "loop"
    /\ fm_module \in {"marcus_dim", "drivers"}
    /\ arr \in ArraysUpTo(MaxArrLen)
    /\ fm_i = 1
    /\ inner_mins = <<>>
    /\ fm_ret = NoReturn

\* One pass of the list comprehension.
FmIter ==
    /\ fm_pc = "loop"
    /\ fm_i < RangeEnd(arr)
    /\ IF NeedsRight(arr, fm_i) /\ ~RightInRange(arr, fm_i)
       THEN /\ fm_pc' = "raised"
            /\ fm_ret' = [raised |-> TRUE, value |-> <<>>]
            /\ UNCHANGED <<fm_i, inner_mins>>
       ELSE /\ fm_i' = fm_i + 1
            /\ inner_mins' = IF NeedsRight(arr, fm_i) /\ At(arr, fm_i) < At(arr, fm_i + 1)
                             THEN Append(inner_mins, fm_i) ELSE inner_mins
            /\ UNCHANGED <<fm_pc, fm_ret>>
    /\ UNCHANGED <<irc_vars, mol_vars, rot_vars, scan_vars, sign_vars, fm_module, arr>>

\* The comprehension is exhausted: the lists are joined and returned.
FmReturn ==
    /\ fm_pc = "loop"
    /\ fm_i = RangeEnd(arr)
    /\ fm_pc' = "done"
    /\ fm_ret' = [raised |-> FALSE,
                  value |-> first_min(arr) \o inner_mins \o last_min(arr)]
    /\ UNCHANGED <<irc_vars, mol_vars, rot_vars, scan_vars, sign_vars, fm_module, arr,
                   fm_i, inner_mins>>

\* ======================================================================
\* marcus_dim/run.py, run_param: the sign of the plotted scan factors
\* ======================================================================

\* Largest number of scan points.
MaxPts == 3

EnergySet == 0..2

\* A real number r as its sign and its square.
Real(neg, sq) == [neg |-> neg, sq |-> sq]

\* np.linalg.norm(a - b), squared
DiffNormSq(a, b) ==
    LET RECURSIVE Sum(_)
        Sum(n) == IF n = 0 THEN 0 ELSE (a[n] - b[n]) * (a[n] - b[n]) + Sum(n - 1)
    IN  Sum(Len(a))

\* Line 127
plus_diff == Real(FALSE, DiffNormSq(G1, shifted))

\* Line 128
min_diff == Real(FALSE, DiffNormSq(G1, Reverse(shifted)))

\* The outcomes of  plus_diff < min_diff  in floating point.  The two norms
\* are computed from the same numbers in the same order when the scanned
\* energies read the same in both orders, and are then the same float; equal
\* exact norms of different vectors round either way.
RealLess ==
    IF shifted = Reverse(shifted) THEN {FALSE}
    ELSE FloatCompare(plus_diff.sq, min_diff.sq, {-1})

\* Line 129: sign = plus_diff if plus_diff < min_diff else -1, for an outcome
\* of the comparison.
SignChoice(less) == IF less THEN plus_diff ELSE Real(TRUE, 1)

\* run_param is not called.
SignIdle ==
    /\ sign_pc = "idle"
    /\ G1 = <<0, 0, 0>>
    /\ shifted = <<0, 0, 0>>
    /\ sign = Real(FALSE, 0)

\* The 0-based indices find_minima of marcus_dim/param.py returns for the
\* ground state energies a whose last energy is not below the one before it
\* (find_minima raises for the others): index 0 when it lies below index 1,
\* and the inner strict minima.
MinInds(a) ==
    {j \in 0..(Len(a) - 2) :
        IF j = 0 THEN a[1] < a[2] ELSE a[j] > a[j + 1] /\ a[j + 1] < a[j + 2]}

\* param_marcus (param.py 116-128, called at line 115 of run_param) returns
\* for the ground state energies a: find_minima asserts a length of 3 or
\* more, raises when the last energy lies below the one before it, and
\* param_marcus raises unless one or two minima are found.
ParamMarcusReturns(a) ==
    /\ Len(a) >= 3
    /\ a[Len(a)] >= a[Len(a) - 1]
    /\ Cardinality(MinInds(a)) \in {1, 2}

\* run_param has reached line 127 for one model: param_marcus has returned,
\* G1 and the scanned ground state energies have one length.
SignCalled ==
    /\ sign_pc = "call"
    /\ \E n \in 3..MaxPts :
          /\ G1 \in [1..n -> EnergySet]
          /\ shifted \in [1..n -> EnergySet]
          /\ ParamMarcusReturns(shifted)
    /\ sign = Real(FALSE, 0)

\* Lines 127-129.
SignChoose ==
    /\ sign_pc = "call"
    /\ sign_pc' = "plot"
    /\ \E less \in RealLess : sign' = SignChoice(less)
    /\ UNCHANGED <<irc_vars, mol_vars, rot_vars, scan_vars, fm_vars, G1, shifted>>

\* ------------------------------------------------------------------- Init
\* The state after EulerPC.__init__: nothing evaluated, nothing stored.
IrcFresh ==
    /\ pc = "prepare"
    /\ cur_cycle = 0
    /\ converged = FALSE
    /\ error = "none"
    /\ geom = [coords |-> Zero2, valid |-> FALSE, energy |-> 0, gradient |-> Zero2]
    /\ n_calc = 0
    /\ mw_H = ZeroMat
    /\ hu_H_old = ZeroMat
    /\ dwi = <<>>
    /\ dwi_shared = {}
    /\ dwi_field = [shape |-> "uniform", par |-> 0]
    /\ irc_mw_coords = <<>>
    /\ irc_mw_gradients = <<>>
    /\ mw_grad = Zero2
    /\ energy = 0
    /\ init_mw_coords = Zero2
    /\ euler_step_length = 0
    /\ euler_mw_coords = Zero2
    /\ euler_mw_grad = Zero2
    /\ i = 0
    /\ k = 0
    /\ cur_coords = Zero2
    /\ cur_shared = FALSE
    /\ walked = Zero2
    /\ k_coords = <<>>
    /\ richardson = EmptyTable
    /\ errors = <<>>
    /\ corrected = Zero2
    /\ events = <<>>

Init ==
    /\ m_sqrt \in MSqrtSet
    /\ pes \in PesSet
    /\ hessian_recalc \in HessianRecalcSet
    /\ IrcFresh
    /\ MolIdle
    /\ RotIdle
    /\ ScanIdle
    /\ FmIdle
    /\ SignIdle

\* A calculator failure: the exception leaves step/prepare unchanged.
Raise(what) ==
    /\ pc' = "raised"
    /\ error' = what

\* ---------------------------------------------------------------- prepare
\* EulerPC.prepare.  super().prepare() displaces the geometry from the
\* transition state and evaluates energy and gradient there.
Prepare ==
    /\ pc = "prepare"
    /\ \E dH \in DHSet, ok \in BOOLEAN :
        LET ts_mw_coords == Zero2
            ts_mw_gradient == Zero2
            ts_hessian == unweigh_hessian(TsMwHessian)
            g0 == SetCoords(geom, <<1, 0>>)
            g1 == Evaluated(g0, n_calc)
            H0 == mass_weigh_hessian(ts_hessian)
            H1 == MatAdd(H0, dH)
        IN  IF ~ok
            THEN /\ Raise("Calculator")
                 /\ geom' = g0
                 /\ UNCHANGED <<n_calc, mw_H, hu_H_old, dwi, dwi_shared, hist_vars,
                                events>>
            ELSE /\ geom' = g1
                 /\ n_calc' = CalcCount(g0, n_calc)
                 /\ irc_mw_coords' = <<g1.coords>>
                 /\ irc_mw_gradients' = <<g1.gradient>>
                 /\ hu_H_old' = ts_hessian
                 /\ mw_H' = H1
                 /\ dwi' = DwiUpdate(<<>>, g1.coords, g1.energy, g1.gradient, H1)
                 /\ dwi_shared' = HessianArg(1)
                 /\ events' = CalcEvents(g0) \o <<"hessian_update", "dwi_update">>
                 /\ pc' = "step"
                 /\ UNCHANGED error
    /\ UNCHANGED <<config_vars, mol_vars, rot_vars, scan_vars, fm_vars, sign_vars, cur_cycle, converged, dwi_field, pred_vars, corr_vars>>

\* ------------------------------------------------------------------- step
\* EulerPC.step up to the predictor loop: the Hessian bookkeeping of the
\* start point and the set-up of the Euler integration.
StepBegin ==
    /\ pc = "step"
    /\ \E dH \in DHSet, Hx \in ExactHessSet, ok \in BOOLEAN :
        LET g1 == Evaluated(geom, n_calc)
            recalc == IsRecalc(cur_cycle)
            H1 == IF cur_cycle = 0 THEN mw_H
                  ELSE IF recalc THEN Hx
                  ELSE MatAdd(mw_H, dH)
            ev == events \o CalcEvents(geom)
        IN  IF ~ok /\ (~geom.valid \/ (cur_cycle > 0 /\ recalc))
            THEN /\ Raise("Calculator")
                 /\ UNCHANGED <<geom, n_calc, mw_H, hu_H_old, dwi, dwi_shared,
                                pred_vars, events>>
            ELSE /\ geom' = g1
                 /\ n_calc' = CalcCount(geom, n_calc)
                 /\ mw_grad' = g1.gradient
                 /\ energy' = g1.energy
                 /\ mw_H' = H1
                 /\ hu_H_old' = IF cur_cycle > 0 /\ ~recalc THEN mw_H ELSE hu_H_old
                 /\ dwi' = IF cur_cycle = 0 THEN dwi
                           ELSE IF recalc
                           THEN DwiUpdate(dwi, g1.coords, g1.energy, g1.gradient, H1)
                           ELSE DwiUpdate(InPlaceAdd(dwi, dwi_shared, dH),
                                          g1.coords, g1.energy, g1.gradient, H1)
                 /\ dwi_shared' = IF cur_cycle = 0 THEN dwi_shared
                                  ELSE IF recalc THEN HessianArg(Len(dwi) + 1)
                                  ELSE dwi_shared \cup HessianArg(Len(dwi) + 1)
                 /\ events' = ev
                       \o (IF cur_cycle = 0 THEN <<>>
                           ELSE IF recalc THEN <<"exact_hessian", "dwi_update">>
                           ELSE <<"hessian_update", "dwi_update">>)
                       \o <<"predictor">>
                 /\ init_mw_coords' = g1.coords
                 /\ euler_step_length' = EulerStepLength(g1.gradient)
                 /\ euler_mw_coords' = g1.coords
                 /\ euler_mw_grad' = g1.gradient
                 /\ i' = 0
                 /\ pc' = "pred"
                 /\ UNCHANGED error
    /\ UNCHANGED <<config_vars, mol_vars, rot_vars, scan_vars, fm_vars, sign_vars, cur_cycle, converged, dwi_field, hist_vars, corr_vars>>

\* One pass of  for i in range(self.max_pred_steps):  the stopping test first,
\* then one Euler sub-step along the Taylor gradient.
PredIter ==
    /\ pc = "pred"
    /\ i < MaxPredSteps
    /\ LET cur_length == IntegrationLengthSq(init_mw_coords, euler_mw_coords,
                                             euler_step_length)
       IN  \E reached \in ReachedTarget(cur_length, euler_step_length) :
           IF reached
           THEN /\ pc' = "eval"
                /\ UNCHANGED <<euler_mw_coords, euler_mw_grad, i>>
           ELSE LET step_ == VScale(euler_step_length, NegUnit(euler_mw_grad))
                    new_coords == VAdd(euler_mw_coords, step_)
                    euler_step == VSub(new_coords, init_mw_coords)
                IN  /\ euler_mw_coords' = new_coords
                    /\ euler_mw_grad' = taylor_gradient(mw_grad, mw_H, euler_step)
                    /\ i' = i + 1
                    /\ pc' = "pred"
    /\ UNCHANGED <<config_vars, mol_vars, rot_vars, scan_vars, fm_vars, sign_vars, dwi_shared, cur_cycle, converged, error, geom, n_calc, mw_H,
                   hu_H_old, dwi, dwi_field, hist_vars, mw_grad, energy,
                   init_mw_coords, euler_step_length, corr_vars, events>>

\* The else branch of the predictor loop: max_pred_steps passes without break.
PredExhausted ==
    /\ pc = "pred"
    /\ i = MaxPredSteps
    /\ geom' = SetCoords(geom, euler_mw_coords)
    /\ IF RmsGradConverged(unweight_vec(euler_mw_grad))
       THEN /\ converged' = TRUE
            /\ pc' = "driver"
       ELSE /\ pc' = "eval"
            /\ UNCHANGED converged
    /\ UNCHANGED <<config_vars, mol_vars, rot_vars, scan_vars, fm_vars, sign_vars, dwi_shared, cur_cycle, error, n_calc, mw_H, hu_H_old, dwi,
                   dwi_field, hist_vars, pred_vars, corr_vars, events>>

\* EulerPC.step after the predictor loop: evaluation at the predictor end
\* point, Hessian update, DWI update, entry into corrector_step.
EvalEndpoint ==
    /\ pc = "eval"
    /\ \E dH \in DHSet, fld \in FieldSet, ok \in BOOLEAN :
        LET g0 == EndpointGeometry(geom, euler_mw_coords)
            g1 == Evaluated(g0, n_calc)
            H1 == MatAdd(mw_H, dH)
        IN  IF ~ok
            THEN /\ Raise("Calculator")
                 /\ geom' = g0
                 /\ UNCHANGED <<n_calc, mw_H, hu_H_old, dwi, dwi_shared, dwi_field,
                                mw_grad, energy, corr_vars, events>>
            ELSE /\ geom' = g1
                 /\ n_calc' = CalcCount(g0, n_calc)
                 /\ mw_grad' = g1.gradient
                 /\ energy' = g1.energy
                 /\ hu_H_old' = mw_H
                 /\ mw_H' = H1
                 /\ dwi' = EndpointDwiUpdate(InPlaceAdd(dwi, dwi_shared, dH), g1, H1)
                 /\ dwi_shared' = dwi_shared \cup HessianArg(Len(dwi) + 1)
                 /\ dwi_field' = fld
                 /\ events' = events \o CalcEvents(g0)
                                \o <<"hessian_update", "dwi_update", "corrector">>
                 /\ k' = 0
                 /\ errors' = <<>>
                 /\ richardson' = EmptyTable
                 /\ cur_coords' = init_mw_coords
                 /\ cur_shared' = FALSE
                 /\ UNCHANGED walked
                 /\ k_coords' = <<>>
                 /\ pc' = "corr_level"
                 /\ UNCHANGED <<error, corrected>>
    /\ UNCHANGED <<config_vars, mol_vars, rot_vars, scan_vars, fm_vars, sign_vars, cur_cycle, converged, hist_vars, init_mw_coords,
                   euler_step_length, euler_mw_coords, euler_mw_grad, i>>

\* --------------------------------------------------------- corrector_step
\* Head of  for k in range(15):  set-up of level k, or the loop's else branch
\* once every level has been integrated without a break.
CorrLevel ==
    /\ pc = "corr_level"
    /\ IF LevelsLeft(k)
       THEN /\ cur_coords' = init_mw_coords
            /\ cur_shared' = LevelStartShared
            /\ walked' = Zero2
            /\ k_coords' = <<>>
            /\ pc' = "corr_march"
            /\ UNCHANGED error
       ELSE /\ Raise("Richardson")
            /\ UNCHANGED <<cur_coords, cur_shared, walked, k_coords>>
    /\ UNCHANGED <<config_vars, mol_vars, rot_vars, scan_vars, fm_vars, sign_vars, dwi_shared, cur_cycle, converged, geom, n_calc, mw_H, hu_H_old,
                   dwi, dwi_field, hist_vars, pred_vars, k, richardson, errors,
                   corrected, events>>

\* The sub-step counts after one more sub-step along -g / norm(g).  A count
\* is kept up to WalkCap, which is beyond the target of the level for every
\* mass of MSqrtSet.
WalkCap(level) == 3 * Points(level)

Walk(w, g) ==
    LET a == SubStepAxis(g)
        cap == WalkCap(k)
    IN  <<IF w[1] + a[1] > cap THEN cap ELSE w[1] + a[1],
          IF w[2] + a[2] > cap THEN cap ELSE w[2] + a[2]>>

\* One pass of the  while True:  march of level k.
CorrMarch ==
    /\ pc = "corr_march"
    /\ LET points == Points(k)
           corr_step_length == CorrStepLength(k)
           kc == Append(k_coords, cur_coords)
           cur_length == IntegrationLengthSq(init_mw_coords, cur_coords,
                                             corr_step_length)
           gradient == Interpolate(dwi, dwi_field, cur_coords)
           new_coords == VAdd(cur_coords, VScale(corr_step_length, NegUnit(gradient)))
       IN  \E within \in WithinHalfStep(cur_length, points) :
           IF within
           THEN /\ k_coords' = Last2(kc)
                /\ pc' = "corr_rich"
                /\ UNCHANGED <<cur_coords, walked, init_mw_coords, corrected>>
           ELSE /\ k_coords' = Last2(kc)
                /\ cur_coords' = new_coords
                /\ walked' = Walk(walked, gradient)
                /\ init_mw_coords' = IF cur_shared THEN new_coords
                                     ELSE init_mw_coords
                /\ IF Len(kc) >= 2
                      /\ Oscillates(new_coords, PrevCoords(kc), corr_step_length)
                   THEN /\ corrected' = PrevCoords(kc)
                        /\ pc' = "step_end"
                   ELSE /\ pc' = "corr_march"
                        /\ UNCHANGED corrected
    /\ UNCHANGED <<config_vars, mol_vars, rot_vars, scan_vars, fm_vars, sign_vars, dwi_shared, cur_cycle, converged, error, geom,
                   n_calc, mw_H, hu_H_old, dwi, dwi_field, hist_vars, mw_grad,
                   energy, euler_step_length, euler_mw_coords, euler_mw_grad, i,
                   k, cur_shared, richardson, errors, events>>

\* After the march of level k: the Richardson row, the error estimate and the
\* convergence test.
CorrRichardson ==
    /\ pc = "corr_rich"
    /\ LET tab == RichRow(richardson, k, cur_coords)
           diff == VSub(tab[<<k, k>>], tab[<<k, k - 1>>])
       IN  /\ richardson' = tab
           /\ IF k > 0
              THEN /\ errors' = Append(errors, diff)
                   /\ IF ErrorConverged(diff)
                      THEN /\ corrected' = tab[<<k, k>>]
                           /\ pc' = "step_end"
                           /\ UNCHANGED k
                      ELSE /\ k' = k + 1
                           /\ pc' = "corr_level"
                           /\ UNCHANGED corrected
              ELSE /\ k' = k + 1
                   /\ pc' = "corr_level"
                   /\ UNCHANGED <<errors, corrected>>
    /\ UNCHANGED <<config_vars, mol_vars, rot_vars, scan_vars, fm_vars, sign_vars, dwi_shared, cur_cycle, converged, error, geom, n_calc, mw_H,
                   hu_H_old, dwi, dwi_field, hist_vars, pred_vars, cur_coords,
                   cur_shared, walked, k_coords, events>>

\* A step that returns without handing the corrected point to the geometry.
StepEndKeepsEndpoint ==
    /\ pc = "step_end"
    /\ pc' = "driver"
    /\ UNCHANGED <<config_vars, mol_vars, rot_vars, scan_vars, fm_vars, sign_vars, dwi_shared, cur_cycle, converged, error, geom, n_calc, mw_H,
                   hu_H_old, dwi, dwi_field, hist_vars, pred_vars, corr_vars, events>>

\* self.mw_coords = corrected_mw_coords, the last statement of step.
StepEnd ==
    /\ pc = "step_end"
    /\ geom' = SetCoords(geom, corrected)
    /\ pc' = "driver"
    /\ UNCHANGED <<config_vars, mol_vars, rot_vars, scan_vars, fm_vars, sign_vars, dwi_shared, cur_cycle, converged, error, n_calc, mw_H, hu_H_old,
                   dwi, dwi_field, hist_vars, pred_vars, corr_vars, events>>

\* ------------------------------------------------------------ driver loop
\* The IRC driver between two calls of step: energy and gradient at the new
\* geometry are appended to the path, then the run stops on convergence or
\* after MaxCycles macro-steps.
Driver ==
    /\ pc = "driver"
    /\ \E ok \in BOOLEAN :
        LET g1 == Evaluated(geom, n_calc)
        IN  IF ~ok
            THEN /\ Raise("Calculator")
                 /\ UNCHANGED <<geom, n_calc, hist_vars, cur_cycle, events>>
            ELSE /\ geom' = g1
                 /\ n_calc' = CalcCount(geom, n_calc)
                 /\ events' = CalcEvents(geom)
                 /\ irc_mw_coords' = Last2(Append(irc_mw_coords, g1.coords))
                 /\ irc_mw_gradients' = Last2(Append(irc_mw_gradients, g1.gradient))
                 /\ IF converged \/ cur_cycle + 1 >= MaxCycles
                    THEN /\ pc' = "done"
                         /\ UNCHANGED cur_cycle
                    ELSE /\ pc' = "step"
                         /\ cur_cycle' = cur_cycle + 1
                 /\ UNCHANGED error
    /\ UNCHANGED <<config_vars, mol_vars, rot_vars, scan_vars, fm_vars, sign_vars, dwi_shared, converged, mw_H, hu_H_old, dwi, dwi_field,
                   pred_vars, corr_vars>>

Next ==
    \/ Prepare
    \/ StepBegin
    \/ PredIter
    \/ PredExhausted
    \/ EvalEndpoint
    \/ CorrLevel
    \/ CorrMarch
    \/ CorrRichardson
    \/ StepEnd
    \/ Driver

Spec == Init /\ [][Next]_vars

\* The run of an IRC with unit masses and a Hessian recalculation in every
\* cycle, under the scheduling of a sequential program: it never pauses while
\* a statement is left to execute.
FairInit ==
    /\ m_sqrt = <<1, 1>>
    /\ pes \in PesSet
    /\ hessian_recalc = 1
    /\ IrcFresh
    /\ MolIdle
    /\ RotIdle
    /\ ScanIdle
    /\ FmIdle
    /\ SignIdle

FairSpec == FairInit /\ [][Next]_vars /\ WF_vars(Next)

\* ------------------------------------------------ the other specifications
\* The IRC object exists but no run is under way.
IrcIdle ==
    /\ m_sqrt = <<1, 1>>
    /\ pes = "x"
    /\ hessian_recalc = 0
    /\ IrcFresh

\* merge_mol2 over all the inputs of MolCalled.
MergeInit == IrcIdle /\ RotIdle /\ ScanIdle /\ FmIdle /\ SignIdle /\ MolCalled

MergeNext ==
    \/ MolDelete1
    \/ MolDelete2
    \/ MolAddBond
    \/ MolMerge

MergeSpec == MergeInit /\ [][MergeNext]_vars

\* rotation_matrix_for_vec_align over all the inputs of RotCalled.
RotInit == IrcIdle /\ MolIdle /\ ScanIdle /\ FmIdle /\ SignIdle /\ RotCalled

RotNext == RotCall

RotSpec == RotInit /\ [][RotNext]_vars

\* scan and scan_dir over all the inputs of ScanCalled.
ScanInit == IrcIdle /\ MolIdle /\ RotIdle /\ FmIdle /\ SignIdle /\ ScanCalled

ScanNext ==
    \/ ScanDirCall
    \/ ScanBegin
    \/ ScanDirIter
    \/ ScanDirReturn
    \/ ScanConcat

ScanSpec == ScanInit /\ [][ScanNext]_vars

\* find_minima over all the inputs of FmCalled.
FmInit == IrcIdle /\ MolIdle /\ RotIdle /\ ScanIdle /\ SignIdle /\ FmCalled

FmNext ==
    \/ FmIter
    \/ FmReturn

FmSpec == FmInit /\ [][FmNext]_vars

\* The sign choice of run_param over all the inputs of SignCalled.
SignInit == IrcIdle /\ MolIdle /\ RotIdle /\ ScanIdle /\ FmIdle /\ SignCalled

SignNext == SignChoose

SignSpec == SignInit /\ [][SignNext]_vars

TypeOK ==
    /\ pc \in {"prepare", "step", "pred", "eval", "corr_level", "corr_march",
               "corr_rich", "step_end", "driver", "done", "raised"}
    /\ error \in {"none", "Calculator", "Richardson"}
    /\ k \in 0..NLevels
    /\ i \in 0..MaxPredSteps
    /\ cur_cycle \in 0..MaxCycles

\* ======================================================================
\* Properties of corrector_step
\* ======================================================================
\* The refinement levels whose row is in the Richardson table.
Rows(tab) == {p[1] : p \in DOMAIN tab}

InCorrector == pc \in {"corr_level", "corr_march", "corr_rich"}

\* corrector_step returned richardson[(k, k)].
ReturnedRichardson == pc = "step_end" /\ <<k, k>> \in DOMAIN richardson

\* corrector_step returned from the oscillation check of level k.
ReturnedOscillation == pc = "step_end" /\ <<k, k>> \notin DOMAIN richardson

\* norm(a - b) <= h, for a - b a whole multiple of h.
Close(a, b, h) ==
    LET d == VSub(a, b)
    IN  (d[1] \div h) * (d[1] \div h) + (d[2] \div h) * (d[2] \div h) <= 1

\* Every level was integrated and no error estimate met the tolerance.
AllLevelsUnconverged ==
    /\ Rows(richardson) = 0..(NLevels - 1)
    /\ Len(errors) = NLevels - 1
    /\ \A j \in 1..Len(errors) : ~RmsLeq(errors[j], ErrTol)

\* C1: corrector_step raises exactly when all refinement levels have been
\* integrated without an oscillation abort and none of the error estimates of
\* the levels k >= 1 is within the tolerance; then nothing is returned, and a
\* Richardson value that is returned has met the tolerance.
C1_RaiseIffUnconverged ==
    /\ error = "Richardson" => pc = "raised" /\ AllLevelsUnconverged
    /\ AllLevelsUnconverged =>
          error = "Richardson" \/ (pc = "corr_level" /\ k = NLevels)
    /\ pc = "step_end" => error = "none"
    /\ ReturnedRichardson =>
          /\ k >= 1
          /\ Len(errors) = k
          /\ RmsLeq(errors[k], ErrTol)
          /\ corrected = richardson[<<k, k>>]

\* The corrector raised after its last level.
C1_Witness == pc = "raised" /\ error = "Richardson" /\ Len(errors) = NLevels - 1

\* C2: no convergence test at level 0; the error of level k >= 1 is the
\* difference of richardson[(k,k)] and richardson[(k,k-1)]; the corrector
\* returns richardson[(k,k)] of the first level whose error is within the
\* tolerance and integrates no level above it.
C2_FirstConvergedLevel ==
    /\ Len(errors) = Max(0, Cardinality(Rows(richardson)) - 1)
    /\ \A j \in 1..Len(errors) :
          /\ {<<j, j>>, <<j, j - 1>>} \subseteq DOMAIN richardson
          /\ errors[j] = VSub(richardson[<<j, j>>], richardson[<<j, j - 1>>])
          /\ RmsLeq(errors[j], ErrTol) =>
                /\ j = Len(errors)
                /\ ~InCorrector
                /\ corrected = richardson[<<j, j>>]
                /\ Rows(richardson) = 0..j
    /\ ReturnedRichardson =>
          /\ k >= 1
          /\ RmsLeq(errors[k], ErrTol)
          /\ \A j \in 1..(k - 1) : ~RmsLeq(errors[j], ErrTol)
          /\ corrected = richardson[<<k, k>>]
          /\ Rows(richardson) = 0..k
    /\ (InCorrector /\ k = 0) => errors = <<>>

\* The corrector converged at level 2, after an error above the tolerance at
\* level 1.
C2_Witness == ReturnedRichardson /\ k = 2 /\ ~RmsLeq(errors[1], ErrTol)

\* C3 as stated: a walk in which two consecutive points are no more than
\* corr_step_length apart has stopped.
C3_ConsecutivePointsAbort ==
    (pc = "corr_march" /\ Len(k_coords) >= 1) =>
        ~Close(cur_coords, k_coords[Len(k_coords)], CorrStepLength(k))

\* C3, amended: the march stops at once, without exception and without a
\* further level, when the new point is no more than corr_step_length away
\* from the point recorded two steps earlier (k_coords[-2]), and that earlier
\* point is returned; while the march goes on, the new point is further than
\* corr_step_length from the point two steps earlier.
C3_OscillationAbort ==
    /\ (pc = "corr_march" /\ Len(k_coords) = 2) =>
          ~Close(cur_coords, k_coords[1], CorrStepLength(k))
    /\ ReturnedOscillation =>
          /\ Len(k_coords) = 2
          /\ corrected = k_coords[1]
          /\ Close(cur_coords, corrected, CorrStepLength(k))
          /\ error = "none"
          /\ Rows(richardson) = 0..(k - 1)
          /\ Len(errors) = Max(0, k - 1)

\* An oscillation abort in a level above level 0.
C3_Witness == ReturnedOscillation /\ k >= 1 /\ corrected # init_mw_coords

\* C4: the march of every level ends, for every interpolated gradient field:
\* a corrector that is running eventually returns or raises.
C4_CorrectorTerminates == InCorrector ~> ~InCorrector

\* ======================================================================
\* Properties of step
\* ======================================================================
HasEvent(tag) == \E n \in 1..Len(events) : events[n] = tag

\* The events of the macro-step before / after the predictor.
BeforePredictor(ev) ==
    SubSeq(ev, 1, (CHOOSE n \in 1..Len(ev) : ev[n] = "predictor") - 1)

AfterPredictor(ev) ==
    SubSeq(ev, (CHOOSE n \in 1..Len(ev) : ev[n] = "predictor") + 1, Len(ev))

Count(ev, tag) == Cardinality({n \in 1..Len(ev) : ev[n] = tag})

\* An exact recomputation counts as the Hessian update of its place.
Normalized(ev) ==
    [n \in 1..Len(ev) |-> IF ev[n] = "exact_hessian" THEN "hessian_update" ELSE ev[n]]

IsPrefix(a, b) == Len(a) <= Len(b) /\ a = SubSeq(b, 1, Len(a))

\* Arc length of the predictor's final point, as (MProd*length/euler_step_length)^2.
FinalLengthSq ==
    IntegrationLengthSq(init_mw_coords, euler_mw_coords, euler_step_length)

\* The arc length S = (MProd*length/h)^2 is step_length or more.
LengthReached(S, h) ==
    LET g == Gcd(step_length, h)
    IN  S * (h \div g) * (h \div g) >= ((step_length \div g) * MProd) * ((step_length \div g) * MProd)

\* The predictor loop has run out of passes.
PredictorExhausted == pc = "pred" /\ i = MaxPredSteps

\* C5: when the predictor loop is exhausted and the RMS of the un-mass-weighted
\* Taylor gradient is at most 5 * rms_grad_thresh, step moves the geometry to
\* the predictor end point, sets converged and returns: no calculator
\* evaluation, no Hessian update, no DWI update, no corrector.  With a larger
\* RMS the step does not raise and goes on to the end-point evaluation, which
\* is followed by the corrector.
C5_EarlyConvergence ==
    [][/\ PredictorExhausted =>
            IF RmsLeq(unweight_vec(euler_mw_grad), 5 * rms_grad_thresh)
            THEN /\ pc' = "driver"
                 /\ converged'
                 /\ geom'.coords = euler_mw_coords
                 /\ error' = "none"
                 /\ n_calc' = n_calc
                 /\ mw_H' = mw_H
                 /\ dwi' = dwi
                 /\ events' = events
                 /\ UNCHANGED corr_vars
            ELSE /\ pc' = "eval"
                 /\ ~converged'
                 /\ error' = "none"
       /\ (pc = "eval" /\ error' = "none") =>
            /\ pc' = "corr_level"
            /\ n_calc' = n_calc + 1
            /\ geom'.coords = euler_mw_coords
      ]_vars

\* step returned with early convergence at the predictor end point.
C5_Witness ==
    /\ pc = "driver"
    /\ converged
    /\ i = MaxPredSteps
    /\ geom.coords = euler_mw_coords
    /\ ~geom.valid
    /\ ~HasEvent("corrector")

\* C6: the exhaustion branch of the predictor (early-convergence test or
\* best-effort continuation) is taken only when the arc length of the final
\* predictor point is below step_length.
C6_ExhaustionOnlyBelowTarget ==
    ((pc = "eval" \/ (pc = "driver" /\ converged)) /\ i = MaxPredSteps) =>
        ~LengthReached(FinalLengthSq, euler_step_length)

\* C7 as stated: every predictor step is followed by exactly one calculator
\* evaluation, one Hessian update and one DWI update.
C7_EveryPredictorStepEvaluates ==
    pc = "driver" =>
        /\ Count(AfterPredictor(events), "calc") = 1
        /\ Count(AfterPredictor(events), "hessian_update") = 1
        /\ Count(AfterPredictor(events), "dwi_update") = 1

\* C7, amended: every predictor step that does not end by early convergence
\* and whose end-point evaluation succeeds is followed by exactly one
\* calculator evaluation at the end point, one Hessian update and one DWI
\* update, which stores the end point's coordinates, energy and gradient and
\* the Hessian as updated; a predictor step that ends by early convergence is
\* followed by none of them.
C7_EndpointSideEffects ==
    /\ HasEvent("corrector") =>
          /\ AfterPredictor(events) =
                <<"calc", "hessian_update", "dwi_update", "corrector">>
          /\ dwi[Len(dwi)] = [coords |-> euler_mw_coords, energy |-> energy,
                              gradient |-> mw_grad, hessian |-> mw_H]
          /\ energy = -n_calc
          /\ mw_grad = CalcGradient(euler_mw_coords)
    /\ (pc = "driver" /\ ~converged) => HasEvent("corrector")
    /\ (pc = "driver" /\ converged) => AfterPredictor(events) = <<>>

\* step returned after a corrector run.
C7_Witness == pc = "driver" /\ ~converged /\ HasEvent("corrector") /\ cur_cycle = 1

\* C8 as stated: evaluation, Hessian update, predictor, evaluation, Hessian
\* update, DWI update, corrector, and nothing else.
C8_OrderAsStated ==
    (pc = "driver" /\ ~converged) =>
        Normalized(events) = <<"calc", "hessian_update", "predictor", "calc",
                               "hessian_update", "dwi_update", "corrector">>

FullOrder ==
    <<"calc", "hessian_update", "dwi_update", "predictor", "calc",
      "hessian_update", "dwi_update", "corrector">>

\* C8, amended: the events of a macro-step are, in this order and no other:
\* evaluation at the current point, Hessian update (or exact recomputation),
\* DWI update for the current point, predictor, and then, unless the predictor
\* declared early convergence, evaluation at the predictor end point, Hessian
\* update, DWI update, corrector; the corrector runs only with the sample of
\* the predictor end point as the latest sample of the DWI.
C8_MacroStepOrder ==
    /\ IsPrefix(Normalized(events), FullOrder)
    /\ pc = "driver" =>
          Normalized(events) = IF converged THEN SubSeq(FullOrder, 1, 4)
                               ELSE FullOrder
    /\ InCorrector =>
          /\ Len(dwi) >= 2
          /\ dwi[Len(dwi)].coords = euler_mw_coords
          /\ dwi[Len(dwi) - 1].coords = init_mw_coords
          /\ geom.coords = euler_mw_coords

\* A complete macro-step after the first one.
C8_Witness == pc = "driver" /\ ~converged /\ cur_cycle >= 1 /\ Len(events) = 8

\* The cycle index is a positive multiple of hessian_recalc.
RecalcCycle == cur_cycle > 0 /\ hessian_recalc # 0 /\ cur_cycle % hessian_recalc = 0

\* C9 as stated: in a macro-step whose cycle index is a positive multiple of
\* hessian_recalc the exact Hessian is computed and it replaces the
\* quasi-Newton update of that macro-step; in every other macro-step the
\* quasi-Newton rule is applied and no exact Hessian is computed.
C9_RecalcReplacesUpdate ==
    pc = "driver" =>
        IF RecalcCycle
        THEN HasEvent("exact_hessian") /\ ~HasEvent("hessian_update")
        ELSE HasEvent("hessian_update") /\ ~HasEvent("exact_hessian")

\* C9, amended: in a macro-step whose cycle index is a positive multiple of
\* hessian_recalc the running Hessian is replaced by the exact Hessian in the
\* place of the quasi-Newton update that precedes the predictor; in cycle 0,
\* in every other cycle and without hessian_recalc the quasi-Newton rule is
\* applied there and no exact Hessian is computed.  The quasi-Newton update
\* that follows the end-point evaluation is applied in every macro-step that
\* reaches it, a macro-step with an exact Hessian included.
C9_HessianRecalc ==
    /\ HasEvent("predictor") =>
          IF RecalcCycle
          THEN /\ BeforePredictor(events) = <<"calc", "exact_hessian", "dwi_update">>
               /\ pc = "pred" => mw_H \in ExactHessSet /\ dwi[Len(dwi)].hessian = mw_H
          ELSE /\ BeforePredictor(events) = <<"calc", "hessian_update", "dwi_update">>
               /\ ~HasEvent("exact_hessian")
    /\ HasEvent("exact_hessian") => RecalcCycle
    /\ HasEvent("corrector") =>
          /\ Count(AfterPredictor(events), "hessian_update") = 1
          /\ Count(AfterPredictor(events), "exact_hessian") = 0
          /\ \E dH \in DHSet : mw_H = MatAdd(hu_H_old, dH)

\* A macro-step with an exact Hessian ran through predictor and corrector.
C9_Witness == pc = "driver" /\ HasEvent("exact_hessian") /\ HasEvent("corrector")

\* C10: step ends with an error only when the Richardson table did not
\* converge at the last level or when a calculator evaluation failed, and the
\* failure ends the run without a retry and without a stored result;
\* predictor exhaustion, an oscillation abort and a zero Hessian correction do
\* not raise.
C10_OnlyTwoErrors ==
    /\ [](/\ error # "none" <=> pc = "raised"
          /\ error = "Richardson" => AllLevelsUnconverged
          /\ error = "Calculator" =>
                \/ ~geom.valid
                \/ cur_cycle > 0 /\ IsRecalc(cur_cycle) /\ ~HasEvent("predictor"))
    /\ [][/\ error' # error =>
               \/ /\ pc = "corr_level" /\ k = NLevels
                  /\ error' = "Richardson"
               \/ /\ pc \in {"prepare", "step", "eval", "driver"}
                  /\ error' = "Calculator"
                  /\ n_calc' = n_calc
                  /\ UNCHANGED <<mw_H, dwi, events, hist_vars, converged>>
          /\ (PredictorExhausted \/ pc = "corr_march") => error' = "none"
          /\ (mw_H' = hu_H_old' /\ events' # events /\ pc \in {"prepare", "eval"}) =>
               error' = "none"
          /\ pc = "raised" => UNCHANGED vars
         ]_vars

\* A calculator failure at the predictor end point ended the step.
C10_Witness == pc = "raised" /\ error = "Calculator" /\ HasEvent("predictor")

\* ======================================================================
\* Properties of the step's results
\* ======================================================================
\* step has run its corrector to the end: the corrector returned a point.
CorrectorReturned == pc \in {"step_end", "driver"} /\ ~converged

\* C11: after every step that ends neither by early convergence nor by an
\* error the current geometry is the point corrector_step returned, which is
\* richardson[(k, k)] of the converged level or the point two steps back of an
\* oscillation abort, and the next macro-step starts from that point.
C11_GeometryIsCorrectorResult ==
    /\ CorrectorReturned =>
          corrected = IF <<k, k>> \in DOMAIN richardson
                      THEN richardson[<<k, k>>]
                      ELSE k_coords[Len(k_coords) - 1]
    /\ (pc = "driver" /\ ~converged) => geom.coords = corrected /\ ~geom.valid
    /\ (pc \in {"step", "pred"} /\ cur_cycle > 0) =>
          /\ geom.coords = corrected
          /\ irc_mw_coords[Len(irc_mw_coords)] = corrected
    /\ (pc = "pred" /\ cur_cycle > 0) => init_mw_coords = corrected

\* step returned with a corrected point that is not the predictor end point.
C11_Witness ==
    /\ pc = "driver"
    /\ ~converged
    /\ corrected # euler_mw_coords
    /\ geom.coords = corrected

\* C12: the samples of the DWI are only ever appended.  A step of prepare,
\* step or corrector_step leaves every stored sample in its place and
\* unchanged, the Hessian of the sample included while the running Hessian is
\* updated in place, and adds at most one sample at the end; the samples are
\* in the order of the calculator evaluations that produced them.
C12_DwiAppendOnly ==
    /\ [](/\ \A a \in 1..Len(dwi) :
                /\ dwi[a].energy \in (-n_calc)..(-1)
                /\ dwi[a].gradient = CalcGradient(dwi[a].coords)
          /\ \A a, b \in 1..Len(dwi) : a < b => dwi[a].energy > dwi[b].energy)
    /\ [][/\ Len(dwi) <= Len(dwi')
          /\ Len(dwi') <= Len(dwi) + 1
          /\ \A n \in 1..Len(dwi) : dwi'[n] = dwi[n]
          /\ mw_H' # mw_H => \A n \in 1..Len(dwi) : dwi'[n].hessian = dwi[n].hessian
         ]_vars

\* Three samples are stored and the running Hessian has been updated since
\* the first one was stored.
C12_Witness ==
    /\ Len(dwi) >= 3
    /\ dwi[1].hessian # dwi[2].hessian
    /\ dwi[2].hessian # dwi[3].hessian
    /\ mw_H # dwi[1].hessian

\* ======================================================================
\* Properties of the predictor
\* ======================================================================
\* cur_length > self.step_length, for a length given by S = (MProd*length/h)^2.
AboveTarget(S, h) ==
    LET g == Gcd(h, step_length)
    IN  S * (h \div g) * (h \div g) >
            ((step_length \div g) * MProd) * ((step_length \div g) * MProd)

\* cur_length >= self.step_length - h, for S = (MProd*length/h)^2.
WithinOneStepBelow(S, h) ==
    LET g == Gcd(h, step_length)
        d == (step_length - h) \div g
    IN  d <= 0 \/ S * (h \div g) * (h \div g) >= (d * MProd) * (d * MProd)

\* C13: from one stopping test of a predictor run to the next the arc length
\* does not decrease, and a predictor run that reaches the target ends with a
\* final arc length L with step_length - euler_step_length <= L <= step_length.
C13_PredictorArcLength ==
    /\ [][(pc = "pred" /\ pc' = "pred" /\ i' < MaxPredSteps) =>
              FinalLengthSq' >= FinalLengthSq]_vars
    /\ []((pc = "eval" /\ LengthReached(FinalLengthSq, euler_step_length)) =>
              /\ WithinOneStepBelow(FinalLengthSq, euler_step_length)
              /\ ~AboveTarget(FinalLengthSq, euler_step_length))

\* ======================================================================
\* Properties of the Hessian bookkeeping
\* ======================================================================
\* The events of the macro-step that set the running Hessian.
HessianEvents ==
    SelectSeq(events, LAMBDA e : e \in {"hessian_update", "exact_hessian"})

\* The running Hessian was last set by the update rule.
LastSetByUpdate ==
    /\ HessianEvents # <<>>
    /\ HessianEvents[Len(HessianEvents)] = "hessian_update"

\* C14: every call of the Hessian update rule, in prepare, before the
\* predictor and after the predictor, is given as H_old the running Hessian
\* mw_H, the matrix the returned correction dH is then added to.
C14_UpdateGetsRunningHessian ==
    LastSetByUpdate => \E dH \in DHSet : mw_H = MatAdd(hu_H_old, dH)

\* ======================================================================
\* Frame properties
\* ======================================================================
\* C17: while corrector_step runs there is no calculator evaluation and no
\* change of the running Hessian, of the DWI samples, of the current geometry
\* or of init_mw_coords; every level starts its march at init_mw_coords, the
\* point the macro-step started from, while the geometry is at the predictor
\* end point.
C17_CorrectorIsPure ==
    /\ [][InCorrector =>
              UNCHANGED <<n_calc, geom, mw_H, hu_H_old, dwi, dwi_field, hist_vars,
                          init_mw_coords, events>>]_vars
    /\ [][(pc = "corr_level" /\ pc' = "corr_march") =>
              /\ cur_coords' = init_mw_coords
              /\ k_coords' = <<>>]_vars
    /\ [](InCorrector =>
              /\ init_mw_coords = irc_mw_coords[Len(irc_mw_coords)]
              /\ geom.coords = euler_mw_coords
              /\ geom.valid)

\* A level above the first one starts at the start point of the macro-step,
\* after the levels before it have marched away from it.
C17_Witness ==
    /\ pc = "corr_march"
    /\ k >= 1
    /\ k_coords = <<>>
    /\ cur_coords = init_mw_coords
    /\ init_mw_coords # euler_mw_coords
    /\ <<k - 1, 0>> \in DOMAIN richardson
    /\ richardson[<<k - 1, 0>>] # init_mw_coords

\* C18: during the Euler loop of the predictor the quadratic model is frozen.
\* The gradient of every sub-step is g0 + H0 (x - x0) with g0 the gradient
\* evaluated at the start point x0 and H0 the running Hessian at the start of
\* the loop, and from the first to the last sub-step there is no calculator
\* evaluation, no Hessian update, no DWI update and no change of the geometry.
C18_FrozenTaylorModel ==
    /\ [](pc = "pred" =>
              /\ euler_mw_grad =
                    VAdd(mw_grad, MatVec(mw_H, VSub(euler_mw_coords, init_mw_coords)))
              /\ mw_grad = CalcGradient(init_mw_coords)
              /\ geom.coords = init_mw_coords
              /\ dwi[Len(dwi)].coords = init_mw_coords
              /\ dwi[Len(dwi)].hessian = mw_H)
    /\ [][(pc = "pred" /\ pc' = "pred") =>
              UNCHANGED <<mw_grad, mw_H, hu_H_old, init_mw_coords, geom, n_calc,
                          dwi, hist_vars, events, euler_step_length>>]_vars
    /\ [][(pc = "pred" /\ i < MaxPredSteps /\ pc' = "eval") =>
              UNCHANGED <<mw_grad, mw_H, init_mw_coords, geom, n_calc, dwi,
                          euler_mw_coords, events>>]_vars

\* Two sub-steps into a predictor run whose Taylor gradient differs from g0.
C18_Witness ==
    /\ pc = "pred"
    /\ i >= 2
    /\ euler_mw_grad # mw_grad
    /\ euler_mw_coords # init_mw_coords

\* ======================================================================
\* Properties of the Richardson table
\* ======================================================================
\* The entries (a, b) with 0 <= b <= a <= top.
Triangle(top) == {<<a, b>> : a \in 0..top, b \in 0..top} \cap {p \in Int \X Int : p[2] <= p[1]}

\* The rows the table holds in the current state: those of the levels that
\* have been completed.
RowsDone ==
    IF pc \in {"step_end", "driver"} /\ <<k, k>> \in DOMAIN richardson
    THEN k
    ELSE k - 1

\* C19: the levels are visited in the order k = 0, 1, ..., below NLevels, level
\* k marches with steps of length step_length / (BasePoints * 2^k - 1); after
\* level k the table holds exactly the entries (a, b) with 0 <= b <= a <= k,
\* (a, 0) is the final point of level a, (a, b) for b >= 1 is
\* (2^b R[a,b-1] - R[a-1,b-1]) / (2^b - 1), and a stored entry never changes.
C19_RichardsonTable ==
    /\ []((InCorrector \/ (pc = "step_end")) =>
              /\ DOMAIN richardson = Triangle(RowsDone)
              /\ \A p \in DOMAIN richardson :
                    p[2] >= 1 =>
                       VScale(Pow2(p[2]) - 1, richardson[p]) =
                          VSub(VScale(Pow2(p[2]), richardson[<<p[1], p[2] - 1>>]),
                               richardson[<<p[1] - 1, p[2] - 1>>])
              /\ pc \in {"corr_march", "corr_rich"} => k <= NLevels - 1)
    /\ [][InCorrector =>
              /\ \A p \in DOMAIN richardson :
                    p \in DOMAIN richardson' /\ richardson'[p] = richardson[p]
              /\ k' # k => (k' = k + 1 /\ pc = "corr_rich")
              /\ pc = "corr_rich" => richardson'[<<k, 0>>] = cur_coords
              /\ (pc = "corr_march" /\ cur_coords' # cur_coords) =>
                    Norm(VSub(cur_coords', cur_coords)) * (BasePoints * Pow2(k) - 1)
                       = step_length]_vars
    /\ [][(pc = "eval" /\ pc' = "corr_level") =>
              k' = 0 /\ DOMAIN richardson' = {}]_vars

\* The table holds three rows whose extrapolated values differ from the
\* final points of the levels.
C19_Witness ==
    /\ pc = "step_end"
    /\ DOMAIN richardson = Triangle(2)
    /\ richardson[<<2, 2>>] # richardson[<<2, 0>>]
    /\ richardson[<<2, 1>>] # richardson[<<2, 2>>]
    /\ richardson[<<1, 1>>] # richardson[<<1, 0>>]

\* C20: the conversion factor is max(2, norm(un-weighted gradient) /
\* norm(mass-weighted gradient)) and euler_step_length is step_length /
\* (max_pred_steps / conv_fact); so the factor is at least 2 and every Euler
\* sub-step has the mass-weighted length euler_step_length, which is at least
\* 2 * step_length / max_pred_steps.
C20_ConversionFactor ==
    /\ [](pc = "pred" =>
              /\ euler_step_length * MaxPredSteps * Norm(mw_grad) =
                    step_length * Max(2 * Norm(mw_grad), Norm(unweight_vec(mw_grad)))
              /\ euler_step_length * MaxPredSteps >= 2 * step_length)
    /\ [][(pc = "pred" /\ pc' = "pred") =>
              Norm(VSub(euler_mw_coords', euler_mw_coords)) = euler_step_length]_vars

\* A predictor run whose conversion factor is above 2.
C20_Witness ==
    /\ pc = "pred"
    /\ i >= 1
    /\ Norm(unweight_vec(mw_grad)) > 2 * Norm(mw_grad)
    /\ euler_step_length * MaxPredSteps > 2 * step_length

\* ======================================================================
\* Properties of merge_mol2
\* ======================================================================

\* The names of the atoms of dictionary d that carry the id `id`.
AtomsWithId(d, id) ==
    {d.atoms_xyzs[p].atom_name :
        p \in {q \in 1..Len(d.atoms_xyzs) : d.atoms_xyzs[q].atom_id = id}}

\* The j-th of the bonds merge_mol2 added: they are the last ones of the
\* merged bond list.
AddedBond(j) == merged.bond[Len(merged.bond) - nnewbonds + j]

\* C15: every pair (id1, id2) of `bonds` is read as original atom ids: the
\* bond added to the merged structure connects the atom that had id id1 in
\* the first file with the atom that had id id2 in the second file, whatever
\* atoms were deleted and however the surviving atoms were renumbered.
C15_BondsUseOriginalIds ==
    mol_pc = "merged" =>
        \A j \in 1..nnewbonds :
            /\ AtomsWithId(merged, AddedBond(j).origin_atom_id) = {<<1, bonds[2 * j - 1]>>}
            /\ AtomsWithId(merged, AddedBond(j).target_atom_id) = {<<2, bonds[2 * j]>>}

\* ======================================================================
\* Properties of rotation_matrix_for_vec_align
\* ======================================================================

Transpose3(A) == [r \in 1..3 |-> [q \in 1..3 |-> A[q][r]]]

\* A @ v
MatVec3(A, v) == [r \in 1..3 |-> Dot3(A[r], v)]

Det3(A) ==
    A[1][1] * (A[2][2] * A[3][3] - A[2][3] * A[3][2])
    - A[1][2] * (A[2][1] * A[3][3] - A[2][3] * A[3][1])
    + A[1][3] * (A[2][1] * A[3][2] - A[2][2] * A[3][1])

\* The fraction M is orthogonal with determinant +1.
IsRotation(M) ==
    /\ MatMul3(M.num, Transpose3(M.num)) = MatScale3(M.den * M.den, Eye3)
    /\ Det3(M.num) = M.den * M.den * M.den

\* M @ a is parallel to b and points in the same direction.
AlignsOnto(M, a, b) ==
    /\ Cross3(MatVec3(M.num, a), b) = <<0, 0, 0>>
    /\ Dot3(MatVec3(M.num, a), b) * M.den > 0

\* C16: for all vectors vec1, vec2 with a norm >= thresh the returned matrix
\* is a rotation matrix (orthogonal, determinant +1) and R @ vec1 is parallel
\* to vec2 and points in the same direction, the parallel and the antiparallel
\* shortcut included.
C16_ReturnsAligningRotation ==
    rot_pc = "returned" => IsRotation(rot_R) /\ AlignsOnto(rot_R, vec1, vec2)

\* ======================================================================
\* The corrector's arc length
\* ======================================================================

\* The accumulated arc length of the march in un-mass-weighted space, the sum
\* of its sub-step lengths  h / m_sqrt[axis], differs from step_length =
\* (points - 1) * h by less than h / 2; both sides are multiplied by
\* 2 * MProd / h.
AccWithinHalfStep(w, points) ==
    Abs(2 * (w[1] * m_sqrt[2] + w[2] * m_sqrt[1]) - 2 * (points - 1) * MProd) < MProd

\* C21: in each corrector level the march accumulates the arc length of the
\* path walked so far in un-mass-weighted space and stops at the first point
\* where the accumulated length is within half of corr_step_length of
\* step_length: the point that becomes R[k,0] is such a point, and the march
\* never walks on from such a point.
C21_AccumulatedArcLength ==
    /\ [](pc = "corr_rich" => AccWithinHalfStep(walked, Points(k)))
    /\ [][(pc = "corr_march" /\ cur_coords' # cur_coords)
             => ~AccWithinHalfStep(walked, Points(k))]_vars

\* ======================================================================
\* Properties of scan_dir and scan
\* ======================================================================

\* A pass of the loop of scan_dir that ends the loop.
LoopEnds == scan_pc = "loop" /\ sd'.exit # "none"

\* The return from a scan_dir call.
Returns == scan_pc = "return"

\* The four returned arrays have the length n.
AllOfLength(r, n) ==
    /\ Len(r.factors) = n
    /\ Len(r.coords) = n
    /\ Len(r.energies) = n
    /\ Len(r.properties) = n

\* The returned arrays hold the first n evaluations of the call, in order.
HoldsFirst(r, f, n) ==
    /\ AllOfLength(r, n)
    /\ r.coords = SubSeq(f.all_coords, 1, n)
    /\ r.energies = SubSeq(f.all_energies, 1, n)
    /\ r.properties = SubSeq(f.all_properties, 1, n)

\* C22: scan_dir returns four arrays of equal length that hold, in evaluation
\* order, every point it evaluated except the single evaluation that led to
\* the break from the loop; a loop that runs through all max_steps
\* evaluations without a break drops no evaluated point.
C22_DropsOnlyBreakingEvaluation ==
    [][Returns =>
          IF sd.exit = "exhausted"
          THEN HoldsFirst(sd_ret', sd, Len(sd.all_coords))
          ELSE HoldsFirst(sd_ret', sd, Len(sd.all_coords) - 1)]_vars

\* |grad| of the evaluation with the 0-based index j >= 1, times step_size.
AbsGradAt(props, j) == Abs(props[j + 1] - props[j])

\* C23: scan_dir breaks because of an unexpected increase of |grad| only when
\* |grad| had decreased at an earlier step and does not decrease at the
\* current step, and no run with max_steps > min_steps ends after fewer than
\* min_steps evaluations.
C23_MinStepsBeforeStop ==
    [][LoopEnds =>
          LET props == sd'.all_properties
              last == Len(props) - 1
          IN  /\ sd'.exit = "increase" =>
                    /\ \E j \in 2..(last - 1) : AbsGradAt(props, j) < AbsGradAt(props, j - 1)
                    /\ ~(AbsGradAt(props, last) < AbsGradAt(props, last - 1))
              /\ scan_args.max_steps > scan_args.min_steps =>
                    Len(props) >= scan_args.min_steps]_vars

\* |grad| <= grad_thresh holds of the exact values at the evaluation with the
\* 0-based index j >= 1; they are equal in AtThreshold.
BelowThreshold(props, j) ==
    AbsGradAt(props, j) < scan_args.grad_thresh * scan_args.step_size

AtThreshold(props, j) ==
    AbsGradAt(props, j) = scan_args.grad_thresh * scan_args.step_size

\* The pass of the loop sets the convergence flag.
Detects == scan_pc = "loop" /\ ~sd.converged /\ sd'.converged

\* C24: the convergence flag of scan_dir is sticky; with add_steps = 0 the
\* scan stops at the evaluation where convergence is detected, with
\* add_steps = a > 0 it makes exactly a further evaluations and stops then,
\* unless the unexpected-increase break or max_steps ends it earlier.
\* Convergence is detected at an evaluation whose |grad| is at most
\* grad_thresh, and at the first evaluation whose |grad| is below it.
C24_StickyConvergence ==
    /\ [][(scan_pc = "loop" /\ sd.converged) =>
             sd'.converged /\ sd'.detected = sd.detected]_vars
    /\ [][scan_pc = "loop" =>
             LET props == sd'.all_properties
                 last == Len(props) - 1
             IN  /\ Detects =>
                       /\ last >= 1
                       /\ BelowThreshold(props, last) \/ AtThreshold(props, last)
                       /\ sd'.detected = <<last>>
                 /\ (~sd.converged /\ last >= 1 /\ BelowThreshold(props, last)
                        /\ sd'.exit # "increase") => Detects
                 /\ ~sd'.converged => sd'.detected = <<>>]_vars
    /\ [][LoopEnds =>
             LET props == sd'.all_properties
                 a == scan_args.add_steps
                 at == sd'.detected
             IN  /\ sd'.exit = "converged" =>
                       a = 0 /\ at # <<>> /\ Len(props) = at[1] + 1
                 /\ sd'.exit = "additional" =>
                       a > 0 /\ at # <<>> /\ Len(props) = at[1] + 1 + a
                 /\ at # <<>> => Len(props) <= at[1] + 1 + a
                 /\ (at # <<>> /\ sd'.exit \notin {"increase", "exhausted"}) =>
                       Len(props) = at[1] + 1 + a]_vars

\* A scan that made its additional steps although |grad| rose above the
\* threshold again after the convergence.
C24_Witness ==
    /\ scan_pc = "return"
    /\ sd.exit = "additional"
    /\ scan_args.add_steps = 2
    /\ sd.detected # <<>>
    /\ \E j \in 1..(Len(sd.all_properties) - 1) :
          /\ j > sd.detected[1]
          /\ ~BelowThreshold(sd.all_properties, j)
          /\ ~AtThreshold(sd.all_properties, j)

\* A bound on the number of statements left to execute: the passes the
\* running loop can still make, the return, and in scan the directional scan
\* and the concatenation that follow.
StepsLeft ==
    LET W == scan_args.max_steps + 2
        in_scan == IF scan_frame.call \in {"pos", "neg"} THEN 1 ELSE 0
        after == IF scan_frame.call = "pos" THEN W ELSE 0
    IN  CASE scan_pc = "scan" -> 2 * W + 2
          [] scan_pc = "scan_dir" -> W + 2
          [] scan_pc = "loop" ->
                after + (scan_args.max_steps - Len(sd.all_coords)) + 2 + in_scan
          [] scan_pc = "return" -> after + 1 + in_scan
          [] scan_pc = "concat" -> 1
          [] OTHER -> 0

\* C27: scan_dir calls get_property at most max_steps times and always
\* terminates (every statement executed lowers the bound StepsLeft, which is
\* zero only after the return); the k-th returned coordinate is
\* x0 + factors[k] * direction with factors[k] = (k + 1) * step_size, and the
\* start point x0 is neither evaluated nor returned by scan_dir.
C27_BoundedScan ==
    /\ [](StepsLeft >= 0 /\ (StepsLeft = 0 <=> scan_pc = "done"))
    /\ [][StepsLeft' < StepsLeft]_vars
    /\ [](/\ Len(sd.all_energies) <= scan_args.max_steps
          /\ \A j \in 1..Len(sd.all_coords) : sd.all_coords[j] # FvInt(scan_args.x0))
    /\ [][Returns =>
             \A n \in 1..Len(sd_ret'.coords) :
                 /\ sd_ret'.factors[n] = n * scan_args.step_size
                 /\ sd_ret'.coords[n] =
                       FvAdd(FvInt(scan_args.x0),
                             FracVec(<<sd_ret'.factors[n] * sd.direction.num[1],
                                       sd_ret'.factors[n] * sd.direction.num[2],
                                       sd_ret'.factors[n] * sd.direction.num[3]>>,
                                     sd.direction.den))
                 /\ sd_ret'.coords[n] # FvInt(scan_args.x0)]_vars

\* A direct call of scan_dir that returned at least two points.
C27_Witness ==
    /\ scan_pc = "done"
    /\ scan_frame.call = "direct"
    /\ Len(sd_ret.coords) >= 2
    /\ Len(evals) = scan_args.max_steps

\* The number of evaluations of the geometry x.
TimesEvaluated(x) == Cardinality({j \in 1..Len(evals) : evals[j].x = x})

\* C28: scan evaluates the initial geometry exactly once and returns arrays
\* of the length n_neg + 1 + n_pos in which the factors are strictly
\* increasing, the entry with the factor 0 is the initial geometry and every
\* coordinate is x0 + factor * (normalised direction): a direction whose norm
\* is not 1 is renormalised before both directional scans.
C28_ScanResult ==
    (scan_pc = "done" /\ scan_frame.call = "neg") =>
        LET r == scan_ret
            n == Len(scan_frame.neg.factors) + 1 + Len(scan_frame.pos.factors)
            unit == UnitVec(scan_args.direction)
        IN  /\ TimesEvaluated(FvInt(scan_args.x0)) = 1
            /\ AllOfLength(r, n)
            /\ \A j \in 1..(n - 1) : r.factors[j] < r.factors[j + 1]
            /\ \E j \in 1..n :
                  /\ r.factors[j] = 0
                  /\ r.coords[j] = FvInt(scan_args.x0)
                  /\ r.energies[j] = scan_frame.ens0
                  /\ evals[r.energies[j]].x = FvInt(scan_args.x0)
            /\ \A j \in 1..n :
                  /\ r.coords[j] =
                        FvAdd(FvInt(scan_args.x0),
                              FracVec(<<r.factors[j] * unit.num[1],
                                        r.factors[j] * unit.num[2],
                                        r.factors[j] * unit.num[3]>>, unit.den))
                  /\ evals[r.energies[j]] =
                        [x |-> r.coords[j], energies |-> r.energies[j],
                         prop |-> r.properties[j]]

\* A scan along a direction of norm 3 that returned points on both sides,
\* more on the positive side.
C28_Witness ==
    /\ scan_pc = "done"
    /\ scan_frame.call = "neg"
    /\ Norm3(scan_args.direction) = 3
    /\ Len(scan_frame.neg.factors) > 0
    /\ Len(scan_frame.pos.factors) > Len(scan_frame.neg.factors)

\* ======================================================================
\* Properties of find_minima and of run_param
\* ======================================================================

\* The 0-based indices of the array whose value is strictly smaller than each
\* existing neighbour, in increasing order; without_ends leaves out the two
\* boundary indices.
RECURSIVE MinimaFrom(_, _, _)
MinimaFrom(a, j, without_ends) ==
    IF j >= Len(a) THEN <<>>
    ELSE LET left == j > 0 => At(a, j) < At(a, j - 1)
             right == j < Len(a) - 1 => At(a, j) < At(a, j + 1)
             inner == j > 0 /\ j < Len(a) - 1
         IN  (IF left /\ right /\ (inner \/ ~without_ends) THEN <<j>> ELSE <<>>)
             \o MinimaFrom(a, j + 1, without_ends)

\* C26: for every 1-d array of a length >= 3 find_minima returns, without
\* raising, exactly the indices whose value is strictly smaller than each
\* existing neighbour (the inner minima and, in marcus_dim/param.py, the two
\* boundary indices that lie below their single neighbour); an array whose
\* last element is smaller than the one before it is handled like any other.
C26_FindMinima ==
    /\ fm_pc # "raised"
    /\ fm_pc = "done" =>
          fm_ret = [raised |-> FALSE,
                    value |-> MinimaFrom(arr, 0, fm_module = "drivers")]

\* C25: the factor sign of run_param is always +1 or -1: +1 when the model's
\* adiabatic ground state energies are closer to the scanned energies in the
\* given order, -1 when they are closer to the reversed order.
C25_SignIsUnit ==
    sign_pc = "plot" =>
        /\ sign \in {Real(FALSE, 1), Real(TRUE, 1)}
        /\ plus_diff.sq < min_diff.sq => sign = Real(FALSE, 1)
        /\ min_diff.sq < plus_diff.sq => sign = Real(TRUE, 1)

====
